---- MODULE Spec2Model ----
(***************************************************************************)
(* A model of fuzzyfinder: the Record view (tokenisation, phonetic         *)
(* expansion), the SQLite-backed SearchDatabase (df, fts_target, db_state, *)
(* the per-column token count tables) and its ingest, counter flush and    *)
(* stats rebuild.                                                          *)
(*                                                                         *)
(* Text is modelled as a sequence of one-character strings, so that the    *)
(* regular-expression steps of the tokeniser act character by character.   *)
(* Optional Python values (None or an object) are modelled as a sequence   *)
(* of length 0 (None) or 1 (the object).                                   *)
(***************************************************************************)
EXTENDS Integers, Sequences, FiniteSets, TLC

(***************************************************************************)
(* Bounds of the model.                                                    *)
(***************************************************************************)
\* how many calls of write_list_dicts_parallel a behaviour makes
MaxCalls == 3
\* the longest list of record dicts handed to one ingest call
MaxListLen == 2
\* the largest token_count a flush may write to a count table
MaxTokenCount == 4

(***************************************************************************)
(* Characters                                                              *)
(***************************************************************************)
LowerCase == <<"a","b","c","d","e","f","g","h","i","j","k","l","m",
               "n","o","p","q","r","s","t","u","v","w","x","y","z">>
UpperCase == <<"A","B","C","D","E","F","G","H","I","J","K","L","M",
               "N","O","P","Q","R","S","T","U","V","W","X","Y","Z">>
DigitChars == {"0","1","2","3","4","5","6","7","8","9"}
WhiteSpace == {" ", "\t", "\n"}

Range(s) == { s[i] : i \in DOMAIN s }

UpperChars == Range(UpperCase)
LowerChars == Range(LowerCase)
WordChars == UpperChars \cup LowerChars \cup DigitChars \cup {"_"}

\* [A-Z]
IsUpperAZ(c) == c \in UpperChars
\* \d
IsDigit(c) == c \in DigitChars
\* \s
IsSpace(c) == c \in WhiteSpace
\* \w : letters, digits and the underscore
IsWord(c) == c \in WordChars

\* str.upper() on one character
UpperChar(c) ==
    IF c \in LowerChars
    THEN UpperCase[CHOOSE i \in DOMAIN LowerCase : LowerCase[i] = c]
    ELSE c

str_upper(s) == [i \in DOMAIN s |-> UpperChar(s[i])]

\* str.strip(): drop leading and trailing whitespace
RECURSIVE lstrip(_)
lstrip(s) == IF s # <<>> /\ IsSpace(Head(s)) THEN lstrip(Tail(s)) ELSE s

RECURSIVE rstrip(_)
rstrip(s) ==
    IF s # <<>> /\ IsSpace(s[Len(s)]) THEN rstrip(SubSeq(s, 1, Len(s) - 1)) ELSE s

str_strip(s) == rstrip(lstrip(s))

\* length of the run of whitespace that starts at the head of s
RECURSIVE SpaceRun(_)
SpaceRun(s) == IF s # <<>> /\ IsSpace(Head(s)) THEN 1 + SpaceRun(Tail(s)) ELSE 0

\* length of the run of word characters that starts at the head of s
RECURSIVE WordRun(_)
WordRun(s) == IF s # <<>> /\ IsWord(Head(s)) THEN 1 + WordRun(Tail(s)) ELSE 0

Min(a, b) == IF a < b THEN a ELSE b

\* re.sub(r"\s{2,100}", " ", value)
RECURSIVE sub_multiple_spaces(_)
sub_multiple_spaces(s) ==
    IF s = <<>> THEN <<>>
    ELSE LET m == Min(SpaceRun(s), 100)
         IN  IF m >= 2
             THEN <<" ">> \o sub_multiple_spaces(SubSeq(s, m + 1, Len(s)))
             ELSE <<Head(s)>> \o sub_multiple_spaces(Tail(s))

\* re.sub(r"[^\w\s]", " ", value)
sub_punctuation(s) ==
    [i \in DOMAIN s |-> IF IsWord(s[i]) \/ IsSpace(s[i]) THEN s[i] ELSE " "]

\* re.sub(r"([A-Z])(\d)", r"\1 \2", value)
RECURSIVE sub_char_num(_)
sub_char_num(s) ==
    IF Len(s) < 2 THEN s
    ELSE IF IsUpperAZ(s[1]) /\ IsDigit(s[2])
         THEN <<s[1], " ", s[2]>> \o sub_char_num(SubSeq(s, 3, Len(s)))
         ELSE <<s[1]>> \o sub_char_num(Tail(s))

\* re.sub(r"(\d)([A-Z])", r"\1 \2", value)
RECURSIVE sub_num_char(_)
sub_num_char(s) ==
    IF Len(s) < 2 THEN s
    ELSE IF IsDigit(s[1]) /\ IsUpperAZ(s[2])
         THEN <<s[1], " ", s[2]>> \o sub_num_char(SubSeq(s, 3, Len(s)))
         ELSE <<s[1]>> \o sub_num_char(Tail(s))

\* re.sub(r"(\w{8})", r"\1 ", value)
RECURSIVE sub_max_length_8(_)
sub_max_length_8(s) ==
    IF s = <<>> THEN <<>>
    ELSE IF WordRun(s) >= 8
         THEN SubSeq(s, 1, 8) \o <<" ">> \o sub_max_length_8(SubSeq(s, 9, Len(s)))
         ELSE <<Head(s)>> \o sub_max_length_8(Tail(s))

\* str.split(" "): the pieces between single space characters
RECURSIVE split_cur(_, _)
split_cur(s, cur) ==
    IF s = <<>> THEN <<cur>>
    ELSE IF Head(s) = " "
         THEN <<cur>> \o split_cur(Tail(s), <<>>)
         ELSE split_cur(Tail(s), Append(cur, Head(s)))

str_split(s) == split_cur(s, <<>>)

\* " ".join(tokens)
RECURSIVE str_join(_)
str_join(tokens) ==
    IF tokens = <<>> THEN <<>>
    ELSE IF Len(tokens) = 1 THEN tokens[1]
         ELSE tokens[1] \o <<" ">> \o str_join(Tail(tokens))

(***************************************************************************)
(* Record                                                                  *)
(***************************************************************************)
\* a field value that is None
NoneValue == <<"None">>

\* Record.tokenise_value for None and for str values
tokenise_value(value) ==
    IF value = NoneValue THEN <<>>
    ELSE IF str_strip(value) = <<>> THEN <<>>
    ELSE LET v1 == str_upper(value)
             v2 == sub_multiple_spaces(v1)
             v3 == sub_punctuation(v2)
             v4 == IF Len(v3) > 5 THEN sub_num_char(sub_char_num(v3)) ELSE v3
             v5 == sub_max_length_8(v4)
             v6 == sub_multiple_spaces(v5)
         IN  str_split(str_strip(v6))


\* the record ids of the model
Ids == { <<"1">>, <<"2">> }
\* the record dict {"id": i, "fn": f, "sn": s}
RecordDict(i, f, s) ==
    [k \in {"id", "fn", "sn"} |-> CASE k = "id" -> i [] k = "fn" -> f [] OTHER -> s]

\* the record dicts handed to the store, all with the same three columns:
\* id 1 with two payloads ("bob"/"bob" and "al"/None) and id 2 ("bob"/"bob")
RecordDicts ==
    { RecordDict(<<"1">>, <<"b","o","b">>, <<"b","o","b">>),
      RecordDict(<<"1">>, <<"a","l">>, NoneValue),
      RecordDict(<<"2">>, <<"b","o","b">>, <<"b","o","b">>) }

\* the record dicts of the store that is queried: three ids, the tokens A, B,
\* C, D of column fn shared between them, BOB (phonetic code PP) in sn
StoreDicts ==
    { RecordDict(<<"1">>, <<"a"," ","b">>, <<"b","o","b">>),
      RecordDict(<<"2">>, <<"c"," ","d">>, NoneValue),
      RecordDict(<<"3">>, <<"b"," ","c">>, NoneValue) }

\* the search dicts, without their unique id: the fields fn and sn
SearchFields ==
    { [fn |-> <<"a"," ","b"," ","c"," ","d">>, sn |-> NoneValue],
      [fn |-> <<"b">>, sn |-> <<"b","o","b">>],
      [fn |-> NoneValue, sn |-> NoneValue] }

\* the record dicts of the store the scorer is applied against, in insertion
\* order: robin linacre, robyn linaker, nina, nana
ScorerDicts ==
    << RecordDict(<<"1">>, <<"r","o","b","i","n">>, <<"l","i","n","a","c","r","e">>),
       RecordDict(<<"2">>, <<"r","o","b","y","n">>, <<"l","i","n","a","k","e","r">>),
       RecordDict(<<"3">>, <<"n","i","n","a">>, NoneValue),
       RecordDict(<<"4">>, <<"n","a","n","a">>, NoneValue) >>

\* the search dicts handed to the scorer: robin linacre; nana; robin smith
\* (no record of the store has SMITH); robin, without the column sn
ScorerSearchDicts ==
    { RecordDict(<<"q">>, <<"r","o","b","i","n">>, <<"l","i","n","a","c","r","e">>),
      RecordDict(<<"q">>, <<"n","a","n","a">>, NoneValue),
      RecordDict(<<"q">>, <<"r","o","b","i","n">>, <<"s","m","i","t","h">>),
      [k \in {"id", "fn"} |-> IF k = "id" THEN <<"q">> ELSE <<"r","o","b","i","n">>] }

\* tokenise_value is memoised (lru_cache): its values on the field values of
\* the model
FieldValues ==
    { r[k] : r \in RecordDicts \cup StoreDicts, k \in {"id", "fn", "sn"} }
        \cup { f[k] : f \in SearchFields, k \in {"fn", "sn"} }
        \cup UNION { { r[k] : k \in DOMAIN r } : r \in Range(ScorerDicts) \cup ScorerSearchDicts }
tokenise_value_cache == [value \in FieldValues |-> tokenise_value(value)]

\* the keys of the record dicts of the model, in insertion order
RecordKeys == <<"id", "fn", "sn">>

\* record_dict.keys(): a dict keeps the insertion order of its keys
dict_keys(record_dict) == SelectSeq(RecordKeys, LAMBDA k : k \in DOMAIN record_dict)

\* Record.__init__ raises KeyError when the id column is not in the dict
Record_raises(record_dict, unique_id_col) == unique_id_col \notin DOMAIN record_dict

\* Record.__init__: the attributes of a Record
Record(record_dict, unique_id_col, cols_to_ignore, dmeta_cols) ==
    [record_dict |-> record_dict, unique_id_col |-> unique_id_col,
     cols_to_ignore |-> cols_to_ignore, dmeta_cols |-> dmeta_cols]

\* Record.id
id(record) == record.record_dict[record.unique_id_col]

\* Record.columns_to_index
columns_to_index(record) ==
    SelectSeq(dict_keys(record.record_dict),
              LAMBDA c : c # record.unique_id_col /\ c \notin Range(record.cols_to_ignore))

\* Record.tokenised
tokenised(record) ==
    [col \in Range(columns_to_index(record)) |-> tokenise_value_cache[record.record_dict[col]]]

Vowels == {"A", "E", "I", "O", "U"}

\* metaphone.doublemetaphone is an external library that returns a pair
\* (primary code, secondary code), either of which may be empty.  The model
\* uses a stand-in of that shape: the primary code drops the vowels and
\* writes B as P (BOB gives PP, as in the library), the secondary is empty.
doublemetaphone(token) ==
    LET cons == SelectSeq(token, LAMBDA c : c \notin Vowels)
    IN  << [i \in DOMAIN cons |-> IF cons[i] = "B" THEN "P" ELSE cons[i]], <<>> >>

\* Record.get_dmetaphone_tokens
get_dmetaphone_tokens(token) ==
    IF Len(token) > 2 /\ ~ \E i \in DOMAIN token : IsDigit(token[i])
    THEN SelectSeq(doublemetaphone(token), LAMBDA t : t # <<>>)
    ELSE <<>>

\* get_dmetaphone_tokens is memoised (lru_cache): its values on the tokens of
\* the field values of the model
FieldTokens == UNION { Range(tokenise_value_cache[value]) : value \in FieldValues }
get_dmetaphone_tokens_cache == [token \in FieldTokens |-> get_dmetaphone_tokens(token)]

\* Record.tokens_to_misspelling_tokens
RECURSIVE tokens_to_misspelling_tokens(_)
tokens_to_misspelling_tokens(tokens) ==
    IF tokens = <<>> THEN <<>>
    ELSE get_dmetaphone_tokens_cache[Head(tokens)] \o tokens_to_misspelling_tokens(Tail(tokens))

\* does the phonetic expansion apply to col: dmeta_cols is None, or names col
dmeta_applies(record, col) ==
    \/ record.dmeta_cols = <<>>
    \/ col \in Range(record.dmeta_cols[1])

\* Record.tokenised_including_mispellings
tokenised_including_mispellings(record) ==
    LET tfd == tokenised(record)
    IN  [col \in DOMAIN tfd |->
            IF dmeta_applies(record, col)
            THEN tfd[col] \o tokens_to_misspelling_tokens(tfd[col])
            ELSE tfd[col]]

\* the token lists of the columns cols, one after the other
RECURSIVE extend_all(_, _)
extend_all(tfd, cols) ==
    IF cols = <<>> THEN <<>> ELSE tfd[Head(cols)] \o extend_all(tfd, Tail(cols))

\* Record.tokenised_stringified_with_misspellings
tokenised_stringified_with_misspellings(record) ==
    str_join(extend_all(tokenised_including_mispellings(record), columns_to_index(record)))

(***************************************************************************)
(* ColumnCounters: one collections.Counter per indexed column.  A Counter  *)
(* is a function from the tokens it holds to their counts.                 *)
(***************************************************************************)
EmptyCounter == [t \in {} |-> 0]

CounterGet(counter, t) == IF t \in DOMAIN counter THEN counter[t] ELSE 0

\* Counter.update(other Counter)
CounterUpdate(counter, new_counter) ==
    [t \in DOMAIN counter \cup DOMAIN new_counter |->
        CounterGet(counter, t) + CounterGet(new_counter, t)]

\* Counter.update(list of tokens)
RECURSIVE CounterUpdateList(_, _)
CounterUpdateList(counter, tokens) ==
    IF tokens = <<>> THEN counter
    ELSE CounterUpdateList(
             [t \in DOMAIN counter \cup {Head(tokens)} |->
                 CounterGet(counter, t) + (IF t = Head(tokens) THEN 1 ELSE 0)],
             Tail(tokens))

\* ColumnCounters.__init__
ColumnCounters(record) ==
    [columns |-> columns_to_index(record),
     col_token_counts |-> [col \in Range(columns_to_index(record)) |-> EmptyCounter]]

\* ColumnCounters.update_single_column with a Counter
update_single_column(cc, col, new_counter) ==
    [cc EXCEPT !.col_token_counts[col] = CounterUpdate(@, new_counter)]

\* ColumnCounters.update visits self.columns in order and raises KeyError at
\* the first column that new_column_counters does not have; the columns
\* before it have been updated by then.  Number of columns updated:
RECURSIVE update_reach(_, _)
update_reach(columns, new_cc) ==
    IF columns = <<>> \/ Head(columns) \notin Range(new_cc.columns) THEN 0
    ELSE 1 + update_reach(Tail(columns), new_cc)

update_raises(cc, new_cc) == update_reach(cc.columns, new_cc) < Len(cc.columns)

\* ColumnCounters.update
update(cc, new_cc) ==
    LET done == { cc.columns[i] : i \in 1..update_reach(cc.columns, new_cc) }
    IN  [cc EXCEPT !.col_token_counts =
            [col \in DOMAIN @ |->
                IF col \in done
                THEN CounterUpdate(@[col], new_cc.col_token_counts[col])
                ELSE @[col]]]


(***************************************************************************)
(* The arguments of the operations                                         *)
(***************************************************************************)
\* the unique_id_col arguments: "uid" is a column no record has
UniqueIdColArgs == {"id", "uid"}
BatchSizes == {1, 2}
\* the cols_to_ignore arguments
ColsToIgnoreArgs == { <<>>, <<"sn">> }
\* the dmeta_cols arguments: None, [] and ["fn"]
DmetaColsArgs == { <<>>, << <<>> >>, << <<"fn">> >> }
\* the (cols_to_ignore, dmeta_cols) the stores of the model are created with:
\* the defaults, dmeta_cols=["fn"], and cols_to_ignore=["sn"]
CreateArgs == { << <<>>, <<>> >>, << <<>>, << <<"fn">> >> >>, << <<"sn">>, <<>> >> }
\* the lengths of the lists of record dicts handed to an ingest call
ListLenArgs == 0..MaxListLen
\* the batches a worker of the pool may be handed: the lists of one to
\* max(BatchSizes) record dicts
RecordBatches == UNION { [1..n -> RecordDicts] : n \in BatchSizes }

(***************************************************************************)
(* SQLite tables                                                           *)
(***************************************************************************)
\* json.dumps / json.loads
json_dumps(x) == <<"json", x>>
json_loads(j) == j[2]

\* df declared without PRIMARY KEY: no INSERT fails
violates_primary_key_never(dfv, unique_id) == FALSE

\* df has unique_id TEXT NOT NULL PRIMARY KEY: an INSERT of a unique_id that
\* a row already has fails with sqlite3.IntegrityError
violates_primary_key(dfv, unique_id) == \E i \in DOMAIN dfv : dfv[i].unique_id = unique_id

\* SearchDatabase.set_key_value_to_db_state_table
set_key_value_to_db_state_table(state, key, value) == [state EXCEPT ![key] = value]

\* SearchDatabase.get_value_from_db_state_table
get_value_from_db_state_table(state, key) == state[key]

\* SearchDatabase._record_dict_to_insert_data
_record_dict_to_insert_data(record_dict, unique_id_col, cols_to_ignore, dmeta_cols) ==
    LET record == Record(record_dict, unique_id_col, cols_to_ignore, dmeta_cols)
        tfd == tokenised_including_mispellings(record)
        empty == ColumnCounters(record)
    IN  [df_tuple |-> [unique_id |-> id(record),
                       original_record |-> json_dumps(record.record_dict),
                       concat_all |-> tokenised_stringified_with_misspellings(record)],
         column_counters |->
             [empty EXCEPT !.col_token_counts =
                 [col \in DOMAIN @ |-> CounterUpdateList(@[col], tfd[col])]]]

\* the loop of _record_batch_to_insert_data: the result tuples and the
\* aggregated counters of the records record_dicts[i..]
RECURSIVE batch_loop(_, _, _, _, _)
batch_loop(acc, record_dicts, unique_id_col, cols_to_ignore, dmeta_cols) ==
    IF record_dicts = <<>> THEN acc
    ELSE LET single == _record_dict_to_insert_data(
                           Head(record_dicts), unique_id_col, cols_to_ignore, dmeta_cols)
         IN  batch_loop(
                 [acc EXCEPT !.result_tuples = Append(@, single.df_tuple),
                             !.column_counters = update(@, single.column_counters)],
                 Tail(record_dicts), unique_id_col, cols_to_ignore, dmeta_cols)

\* SearchDatabase._record_batch_to_insert_data, the work of one pool worker
_record_batch_to_insert_data(record_dicts, unique_id_col, cols_to_ignore, dmeta_cols) ==
    batch_loop(
        [result_tuples |-> <<>>,
         column_counters |->
             ColumnCounters(Record(record_dicts[1], unique_id_col, cols_to_ignore, dmeta_cols)),
         original_dicts |-> record_dicts],
        record_dicts, unique_id_col, cols_to_ignore, dmeta_cols)

\* executemany("INSERT INTO df ..."): does some tuple hit the primary key,
\* against the rows of df or against an earlier tuple of the same statement
RECURSIVE executemany_fails(_, _)
executemany_fails(dfv, result_tuples) ==
    IF result_tuples = <<>> THEN FALSE
    ELSE \/ violates_primary_key(dfv, Head(result_tuples).unique_id)
         \/ executemany_fails(Append(dfv, Head(result_tuples)), Tail(result_tuples))

\* the FTS entries of bulk_insert_batch: (t[0], t[2]) of every result tuple
fts_tuples(result_tuples) ==
    [i \in DOMAIN result_tuples |->
        [unique_id |-> result_tuples[i].unique_id,
         concat_all |-> result_tuples[i].concat_all]]

\* SearchDatabase.bulk_insert_batch on the tables st.df and st.fts_target and
\* the session counters st.column_counters.  raised is "IntegrityError"
\* (rolled back, nothing written), "KeyError" (the rows are committed, the
\* counter update stopped at a column the batch does not have) or "no".
bulk_insert_batch(st, results_batch) ==
    IF executemany_fails(st.df, results_batch.result_tuples)
    THEN [st EXCEPT !.raised = "IntegrityError"]
    ELSE [st EXCEPT
            !.df = @ \o results_batch.result_tuples,
            !.fts_target = @ \o fts_tuples(results_batch.result_tuples),
            !.column_counters = update(@, results_batch.column_counters),
            !.raised = IF update_raises(st.column_counters, results_batch.column_counters)
                       THEN "KeyError" ELSE "no"]

\* one_by_one_step with the FTS insert moved out of the try block: it runs
\* for a record that df refused as well
one_by_one_step_fts_on_duplicate(st, record_dict, unique_id_col) ==
    LET insert_data == _record_dict_to_insert_data(record_dict, unique_id_col, <<>>, <<>>)
        insert_tuple == insert_data.df_tuple
        fts_row == [unique_id |-> insert_tuple.unique_id, concat_all |-> insert_tuple.concat_all]
    IN  IF violates_primary_key(st.df, insert_tuple.unique_id)
        THEN [st EXCEPT !.ignored = Append(@, record_dict),
                        !.fts_target = Append(@, fts_row)]
        ELSE [st EXCEPT
                !.df = Append(@, insert_tuple),
                !.fts_target = Append(@, fts_row),
                !.column_counters = update(@, insert_data.column_counters)]

\* one_by_one_step with the counter update moved out of the try block: it
\* runs for a record that df refused as well
one_by_one_step_counts_duplicate(st, record_dict, unique_id_col) ==
    LET insert_data == _record_dict_to_insert_data(record_dict, unique_id_col, <<>>, <<>>)
        insert_tuple == insert_data.df_tuple
    IN  IF violates_primary_key(st.df, insert_tuple.unique_id)
        THEN [st EXCEPT !.ignored = Append(@, record_dict),
                        !.column_counters = update(@, insert_data.column_counters)]
        ELSE [st EXCEPT
                !.df = Append(@, insert_tuple),
                !.fts_target = Append(@, [unique_id |-> insert_tuple.unique_id,
                                          concat_all |-> insert_tuple.concat_all]),
                !.column_counters = update(@, insert_data.column_counters)]

\* one_by_one_step with an upsert (ON CONFLICT DO UPDATE): the row of a
\* unique_id that exists takes the new payload, in place
one_by_one_step_upsert(st, record_dict, unique_id_col) ==
    LET insert_data == _record_dict_to_insert_data(record_dict, unique_id_col, <<>>, <<>>)
        insert_tuple == insert_data.df_tuple
    IN  IF violates_primary_key(st.df, insert_tuple.unique_id)
        THEN [st EXCEPT
                !.df = [i \in DOMAIN @ |->
                           IF @[i].unique_id = insert_tuple.unique_id
                           THEN insert_tuple ELSE @[i]]]
        ELSE [st EXCEPT
                !.df = Append(@, insert_tuple),
                !.fts_target = Append(@, [unique_id |-> insert_tuple.unique_id,
                                          concat_all |-> insert_tuple.concat_all]),
                !.column_counters = update(@, insert_data.column_counters)]

\* one_by_one_step with INSERT OR REPLACE: the row of a unique_id that
\* exists is deleted and the new one appended
one_by_one_step_insert_or_replace(st, record_dict, unique_id_col) ==
    LET insert_data == _record_dict_to_insert_data(record_dict, unique_id_col, <<>>, <<>>)
        insert_tuple == insert_data.df_tuple
    IN  IF violates_primary_key(st.df, insert_tuple.unique_id)
        THEN [st EXCEPT
                !.df = Append(SelectSeq(@, LAMBDA r : r.unique_id # insert_tuple.unique_id),
                              insert_tuple)]
        ELSE [st EXCEPT
                !.df = Append(@, insert_tuple),
                !.fts_target = Append(@, [unique_id |-> insert_tuple.unique_id,
                                          concat_all |-> insert_tuple.concat_all]),
                !.column_counters = update(@, insert_data.column_counters)]

\* one turn of the loop of insert_batch_one_by_one.  The insert data is made
\* with the default cols_to_ignore=[] and dmeta_cols=None, as the call at
\* database.py:330 passes neither.
one_by_one_step(st, record_dict, unique_id_col) ==
    LET insert_data == _record_dict_to_insert_data(record_dict, unique_id_col, <<>>, <<>>)
        insert_tuple == insert_data.df_tuple
    IN  IF violates_primary_key(st.df, insert_tuple.unique_id)
        THEN [st EXCEPT !.ignored = Append(@, record_dict)]
        ELSE [st EXCEPT
                !.df = Append(@, insert_tuple),
                !.fts_target = Append(@, [unique_id |-> insert_tuple.unique_id,
                                          concat_all |-> insert_tuple.concat_all]),
                !.column_counters = update(@, insert_data.column_counters)]

\* SearchDatabase.insert_batch_one_by_one
RECURSIVE insert_batch_one_by_one(_, _, _)
insert_batch_one_by_one(st, batch, unique_id_col) ==
    IF batch = <<>> THEN st
    ELSE insert_batch_one_by_one(
             one_by_one_step(st, Head(batch), unique_id_col), Tail(batch), unique_id_col)

\* the body of the loop of write_list_dicts_parallel over the results of
\* the workers: bulk insert, and one by one when it raised IntegrityError
insert_results_batch(st, results_batch, unique_id_col) ==
    LET bulk == bulk_insert_batch(st, results_batch)
    IN  IF bulk.raised = "IntegrityError"
        THEN insert_batch_one_by_one(
                 [st EXCEPT !.raised = "no"], results_batch.original_dicts, unique_id_col)
        ELSE bulk

\* chunk_list
RECURSIVE chunk_list(_, _)
chunk_list(lst, n) ==
    IF lst = <<>> THEN <<>>
    ELSE <<SubSeq(lst, 1, Min(n, Len(lst)))>> \o
         chunk_list(SubSeq(lst, Min(n, Len(lst)) + 1, Len(lst)), n)

(***************************************************************************)
(* The token count tables: token_tables[col] is the table                  *)
(* {col}_token_counts, a function from the tokens that have a row to the   *)
(* row's token_count and token_proportion.  A proportion is NULL (<<>>) or *)
(* the fraction <<numerator, denominator>>.                                *)
(***************************************************************************)
\* the upserts of one column's counter into its table
upsert_counter(table, counter) ==
    [t \in DOMAIN table \cup DOMAIN counter |->
        IF t \in DOMAIN table
        THEN [table[t] EXCEPT !.token_count = @ + CounterGet(counter, t)]
        ELSE [token_count |-> counter[t], token_proportion |-> <<>>]]

\* write_all_col_counters_to_db visits the columns of the counters in order;
\* a column with tokens to write and no table raises OperationalError (in
\* the upsert and in the legacy path alike).  Number of columns written:
RECURSIVE flush_reach(_, _, _)
flush_reach(columns, cc, tables) ==
    IF columns = <<>> THEN 0
    ELSE IF DOMAIN cc.col_token_counts[Head(columns)] # {} /\ Head(columns) \notin DOMAIN tables
         THEN 0
         ELSE 1 + flush_reach(Tail(columns), cc, tables)

flush_raises(cc, tables) == flush_reach(cc.columns, cc, tables) < Len(cc.columns)

\* the tables after the loop of write_all_col_counters_to_db
flush_tables(cc, tables) ==
    LET done == { cc.columns[i] : i \in 1..flush_reach(cc.columns, cc, tables) }
    IN  [col \in DOMAIN tables |->
            IF col \in done
            THEN upsert_counter(tables[col], cc.col_token_counts[col])
            ELSE tables[col]]

RECURSIVE SumOver(_, _)
SumOver(f, S) ==
    IF S = {} THEN 0
    ELSE LET x == CHOOSE y \in S : TRUE IN f[x] + SumOver(f, S \ {x})

\* select sum(token_count) from {col}_token_counts
sum_token_count(table) == SumOver([t \in DOMAIN table |-> table[t].token_count], DOMAIN table)

\* the denominator taken as the number of rows, count(*), of the table
stats_denominator_count_rows(table) == Cardinality(DOMAIN table)

\* the denominator of the update of _update_token_stats_tables
stats_denominator(table) == sum_token_count(table)

\* update {col}_token_counts set token_proportion = cast(token_count as float) / (select sum(token_count) ...)
update_token_proportion(table) ==
    [t \in DOMAIN table |->
        [table[t] EXCEPT !.token_proportion = <<table[t].token_count, stats_denominator(table)>>]]

\* _update_token_stats_tables visits columns_to_index of the example record
\* and commits after each; a column without a table raises OperationalError
RECURSIVE stats_reach(_, _)
stats_reach(columns, tables) ==
    IF columns = <<>> \/ Head(columns) \notin DOMAIN tables THEN 0
    ELSE 1 + stats_reach(Tail(columns), tables)


\* the tables after _update_token_stats_tables
stats_tables(columns, tables) ==
    LET done == { columns[i] : i \in 1..stats_reach(columns, tables) }
    IN  [col \in DOMAIN tables |->
            IF col \in done THEN update_token_proportion(tables[col]) ELSE tables[col]]

\* initialise_token_tables: CREATE TABLE for each column in order; a table
\* that exists raises OperationalError.  Number of tables created:
RECURSIVE create_reach(_, _)
create_reach(columns, tables) ==
    IF columns = <<>> \/ Head(columns) \in DOMAIN tables THEN 0
    ELSE 1 + create_reach(Tail(columns), tables)

EmptyTable == [t \in {} |-> [token_count |-> 0, token_proportion |-> <<>>]]

\* the tables after initialise_token_tables
initialise_token_tables(columns, tables) ==
    LET made == { columns[i] : i \in 1..create_reach(columns, tables) }
    IN  [col \in DOMAIN tables \cup made |->
            IF col \in DOMAIN tables THEN tables[col] ELSE EmptyTable]

(***************************************************************************)
(* The Record against the store: token proportions and rarity order.       *)
(* A proportion is [in_db, value]: in_db is FALSE for the marker           *)
(* "does_not_exist_in_db"; value is the token_proportion of the row, NULL  *)
(* (<<>>) or the fraction <<numerator, denominator>>.  No token of the     *)
(* model is the name of a column of the count tables.                      *)
(***************************************************************************)
does_not_exist_in_db == [in_db |-> FALSE, value |-> <<>>]

\* the lru caches of the process: proportion is the cache of
\* get_token_proportion, keyed by <<token, column>> (the connection is the
\* one of the handle); token_probabilities is the cache of the property
\* Record.token_probabilities, keyed by the Record, whose hash and equality
\* are those of its id
EmptyCaches == [proportion |-> << >>, token_probabilities |-> << >>]

\* get_token_proportion without its cache: the select on the table
select_token_proportion(token, column, tables) ==
    IF token \in DOMAIN tables[column]
    THEN [token |-> token,
          proportion |-> [in_db |-> TRUE, value |-> tables[column][token].token_proportion]]
    ELSE [token |-> token, proportion |-> does_not_exist_in_db]

\* get_token_proportion for the tokens of one column, in order, through the
\* cache; a column without a table raises OperationalError at the first
\* token that is not cached
RECURSIVE get_token_proportions(_, _, _, _)
get_token_proportions(cache, tokens, column, tables) ==
    IF tokens = <<>> THEN [cache |-> cache, raised |-> "no"]
    ELSE LET key == <<Head(tokens), column>>
         IN  IF key \in DOMAIN cache
             THEN get_token_proportions(cache, Tail(tokens), column, tables)
             ELSE IF column \notin DOMAIN tables
             THEN [cache |-> cache, raised |-> "OperationalError"]
             ELSE get_token_proportions(
                      [k \in DOMAIN cache \cup {key} |->
                          IF k = key
                          THEN select_token_proportion(Head(tokens), column, tables)
                          ELSE cache[k]],
                      Tail(tokens), column, tables)

\* the columns of tfd one after the other
RECURSIVE probabilities_loop(_, _, _, _)
probabilities_loop(cache, columns, tfd, tables) ==
    IF columns = <<>> THEN [cache |-> cache, raised |-> "no"]
    ELSE LET got == get_token_proportions(cache, tfd[Head(columns)], Head(columns), tables)
         IN  IF got.raised # "no" THEN got
             ELSE probabilities_loop(got.cache, Tail(columns), tfd, tables)

\* the keys of a dict filled by assignments of the tokens in order: each
\* token once, at the place of its first occurrence
RECURSIVE dict_key_order(_)
dict_key_order(tokens) ==
    IF tokens = <<>> THEN <<>>
    ELSE LET front == dict_key_order(SubSeq(tokens, 1, Len(tokens) - 1))
             last == tokens[Len(tokens)]
         IN  IF last \in Range(front) THEN front ELSE Append(front, last)

\* the end of Record.token_probabilities once the proportions of the tokens
\* of tfd were looked up: tfdp holds per column the values {token,
\* proportion} of its tokens, in the order of the dict, and goes to the cache
token_probabilities_looked(record, lru, tfd, looked) ==
    IF looked.raised # "no"
    THEN [lru |-> [lru EXCEPT !.proportion = looked.cache],
          raised |-> looked.raised, tfdp |-> << >>]
    ELSE LET tfdp == [col \in DOMAIN tfd |->
                         [i \in DOMAIN dict_key_order(tfd[col]) |->
                             looked.cache[<<dict_key_order(tfd[col])[i], col>>]]]
         IN  [lru |-> [proportion |-> looked.cache,
                       token_probabilities |->
                           [i \in DOMAIN lru.token_probabilities \cup {id(record)} |->
                               IF i = id(record) THEN tfdp
                               ELSE lru.token_probabilities[i]]],
              raised |-> "no", tfdp |-> tfdp]

\* Record.token_probabilities of a Record that is not in the cache
token_probabilities_miss(record, lru, tfd, tables) ==
    token_probabilities_looked(
        record, lru, tfd,
        probabilities_loop(lru.proportion, columns_to_index(record), tfd, tables))

\* Record.token_probabilities on the caches lru and the count tables: the
\* new caches, what was raised, and tfdp
token_probabilities(record, lru, tables) ==
    IF id(record) \in DOMAIN lru.token_probabilities
    THEN [lru |-> lru, raised |-> "no", tfdp |-> lru.token_probabilities[id(record)]]
    ELSE token_probabilities_miss(record, lru, tokenised_including_mispellings(record),
                                  tables)

\* a < b for two floats given as fractions with positive denominators
fraction_less(a, b) == a[1] * b[2] < b[1] * a[2]

\* list.sort(key=proportion) is stable: x goes before the first element
\* that is greater
RECURSIVE insert_by_proportion(_, _)
insert_by_proportion(sorted, x) ==
    IF sorted = <<>> THEN <<x>>
    ELSE IF fraction_less(x.proportion.value, Head(sorted).proportion.value)
         THEN <<x>> \o sorted
         ELSE <<Head(sorted)>> \o insert_by_proportion(Tail(sorted), x)

RECURSIVE sort_by_proportion(_)
sort_by_proportion(token_list) ==
    IF token_list = <<>> THEN <<>>
    ELSE insert_by_proportion(
             sort_by_proportion(SubSeq(token_list, 1, Len(token_list) - 1)),
             token_list[Len(token_list)])

\* Record.tokens_in_order_of_rarity from tfdp: the tokens that are in the
\* store, by ascending proportion.  The sort compares every element of a
\* list of two or more, and a proportion that is None (NULL in the table)
\* does not compare: TypeError.
tokens_in_order_of_rarity(tfdp, columns) ==
    LET token_list == SelectSeq(extend_all(tfdp, columns), LAMBDA v : v.proportion.in_db)
    IN  IF Len(token_list) >= 2 /\ \E i \in DOMAIN token_list :
                                        token_list[i].proportion.value = <<>>
        THEN [raised |-> "TypeError", tokens |-> <<>>]
        ELSE LET sorted == sort_by_proportion(token_list)
             IN  [raised |-> "no", tokens |-> [i \in DOMAIN sorted |-> sorted[i].token]]

(***************************************************************************)
(* RecordComparisonScorer.  A probability is a fraction <<numerator,       *)
(* denominator>>; the score of a probability p is -log10(p) / 30, so a     *)
(* greater score is a smaller probability.                                 *)
(***************************************************************************)
Min3(a, b, c) == Min(a, Min(b, c))

Max(a, b) == IF a > b THEN a ELSE b

\* leven.py binds levenshtein_distance when the module is imported: to
\* rapidfuzz.string_metric.levenshtein when that import succeeds, else to
\* backup_levenshtein.  Which of the two a process has depends on what is
\* installed, not on the program.
VARIABLE rapidfuzz  \* the import of rapidfuzz.string_metric succeeded (leven.py:4-9)

\* rapidfuzz.string_metric.levenshtein with its default weights (1, 1, 1):
\* the edit distance of two strings
RECURSIVE levenshtein(_, _)
levenshtein(str_1, str_2) ==
    IF str_1 = <<>> THEN Len(str_2)
    ELSE IF str_2 = <<>> THEN Len(str_1)
    ELSE IF Head(str_1) = Head(str_2) THEN levenshtein(Tail(str_1), Tail(str_2))
    ELSE 1 + Min3(levenshtein(Tail(str_1), str_2),
                  levenshtein(str_1, Tail(str_2)),
                  levenshtein(Tail(str_1), Tail(str_2)))

\* the number of characters str_1[i..] and str_2[j..] have in common at
\* their start
RECURSIVE match_size(_, _, _, _)
match_size(str_1, str_2, i, j) ==
    IF i <= Len(str_1) /\ j <= Len(str_2) /\ str_1[i] = str_2[j]
    THEN 1 + match_size(str_1, str_2, i + 1, j + 1)
    ELSE 0

\* difflib.SequenceMatcher.find_longest_match, which ndiff uses without
\* junk: the longest block <<i, j, size>> with str_1[i..i+size-1] =
\* str_2[j..j+size-1]; of the longest, the one that starts earliest in
\* str_1, and of those the one that starts earliest in str_2
find_longest_match(str_1, str_2) ==
    LET blocks == { <<i, j, match_size(str_1, str_2, i, j)>> :
                        i \in DOMAIN str_1, j \in DOMAIN str_2 }
        earlier(x, y) == \/ x[3] > y[3]
                         \/ x[3] = y[3] /\ x[1] < y[1]
                         \/ x[3] = y[3] /\ x[1] = y[1] /\ x[2] <= y[2]
    IN  CHOOSE x \in blocks : \A y \in blocks : earlier(x, y)

\* leven.backup_levenshtein.  ndiff(str_1, str_2) compares the strings
\* character by character: the longest matching block is kept ("  " codes),
\* then the same is done left of it and right of it; a stretch without a
\* common character comes out as "-" codes for its characters of str_1 and
\* "+" codes for those of str_2.  The loop adds, for each stretch between
\* two kept characters, max(buffer_removed, buffer_added).
RECURSIVE backup_levenshtein(_, _)
RECURSIVE backup_levenshtein_around(_, _, _)
backup_levenshtein_around(str_1, str_2, block) ==
    IF block[3] = 0 THEN Max(Len(str_1), Len(str_2))
    ELSE backup_levenshtein(SubSeq(str_1, 1, block[1] - 1), SubSeq(str_2, 1, block[2] - 1))
         + backup_levenshtein(SubSeq(str_1, block[1] + block[3], Len(str_1)),
                              SubSeq(str_2, block[2] + block[3], Len(str_2)))

backup_levenshtein(str_1, str_2) ==
    IF str_1 = <<>> \/ str_2 = <<>> THEN Max(Len(str_1), Len(str_2))
    ELSE backup_levenshtein_around(str_1, str_2, find_longest_match(str_1, str_2))

\* leven.levenshtein_distance
levenshtein_distance(str_1, str_2) ==
    IF rapidfuzz THEN levenshtein(str_1, str_2) ELSE backup_levenshtein(str_1, str_2)

\* leven_ratio compared with 0.5 in place of 0.65
leven_ratio_above_05(str_1, str_2) ==
    100 * levenshtein_distance(str_1, str_2) < 50 * Max(Len(str_1), Len(str_2))

\* leven_ratio(str_1, str_2) > 0.65, that is distance / max(len) < 0.35
leven_ratio_above_065(str_1, str_2) ==
    100 * levenshtein_distance(str_1, str_2) < 35 * Max(Len(str_1), Len(str_2))

\* RecordComparisonScorer.token_is_misspelling
token_is_misspelling(potential_match_tkns, token_from_search_record) ==
    \E i \in DOMAIN potential_match_tkns :
        leven_ratio_above_065(token_from_search_record, potential_match_tkns[i])

\* token_probs[col][t]["proportion"] for a token t of the search record:
\* {**token_probs_p[col], **token_probs_s[col]} has the value of the search
\* record for every token of the search record
token_probs_proportion(token_probs_s, col, t) ==
    LET values == token_probs_s[col]
    IN  values[CHOOSE i \in DOMAIN values : values[i].token = t].proportion

\* a proportion the scorer can multiply: a float, neither the marker
\* "does_not_exist_in_db" nor None
is_float(proportion) == proportion.in_db /\ proportion.value # <<>>

fraction_times(a, b) == <<a[1] * b[1], a[2] * b[2]>>

\* the product of the proportions of the tokens of a set
RECURSIVE product_of_proportions(_, _, _)
product_of_proportions(token_probs_s, col, token_set) ==
    IF token_set = {} THEN <<1, 1>>
    ELSE LET t == CHOOSE x \in token_set : TRUE
         IN  fraction_times(token_probs_proportion(token_probs_s, col, t).value,
                            product_of_proportions(token_probs_s, col, token_set \ {t}))

\* RecordComparisonScorer.column_probability with _get_prob_matching and
\* _get_prob_unmatching.  A column that one of the two records does not
\* tokenise is a KeyError; a proportion that is not a float and is used makes
\* a product of the column raise TypeError.
column_probability(search_rec_tkns, potential_match_rec_tkns, token_probs_s, col) ==
    IF col \notin DOMAIN search_rec_tkns \/ col \notin DOMAIN potential_match_rec_tkns
    THEN [raised |-> "KeyError", probability |-> <<1, 1>>]
    ELSE LET col_search_tkns == Range(search_rec_tkns[col])
             col_potential_match_tkns == Range(potential_match_rec_tkns[col])
             matching_tokens == col_search_tkns \cap col_potential_match_tkns
             unmatching_tokens == col_search_tkns \ col_potential_match_tkns
             punished == { t \in unmatching_tokens :
                              ~ token_is_misspelling(potential_match_rec_tkns[col], t) }
             used == matching_tokens \cup punished
             prob_matching == product_of_proportions(token_probs_s, col, matching_tokens)
             prob == product_of_proportions(token_probs_s, col, punished)
         IN  IF \E t \in used : ~ is_float(token_probs_proportion(token_probs_s, col, t))
             THEN [raised |-> "TypeError", probability |-> <<1, 1>>]
             ELSE [raised |-> "no",
                   \* prob_matching * (1 / prob)
                   probability |-> fraction_times(prob_matching, <<prob[2], prob[1]>>)]

\* the loop of RecordComparisonScorer.score over columns_except_unique_id
RECURSIVE score_loop(_, _, _, _, _)
score_loop(probability, columns, search_rec_tkns, potential_match_rec_tkns, token_probs_s) ==
    IF columns = <<>> THEN [raised |-> "no", probability |-> probability]
    ELSE LET p == column_probability(search_rec_tkns, potential_match_rec_tkns,
                                     token_probs_s, Head(columns))
         IN  IF p.raised # "no" THEN p
             ELSE score_loop(fraction_times(probability, p.probability), Tail(columns),
                             search_rec_tkns, potential_match_rec_tkns, token_probs_s)

\* Record.columns_except_unique_id
columns_except_unique_id(record) ==
    SelectSeq(dict_keys(record.record_dict), LAMBDA c : c # record.unique_id_col)

\* RecordComparisonScorer.score once __init__ has read the token
\* probabilities s of the search record and p of the potential match
scorer_scored(lru, scored) ==
    [lru |-> lru, raised |-> scored.raised, probability |-> scored.probability]

scorer_init_p(search_rec, potenital_match_rec, s, p) ==
    IF p.raised # "no" THEN [lru |-> p.lru, raised |-> p.raised, probability |-> <<1, 1>>]
    ELSE scorer_scored(
             p.lru,
             score_loop(<<1, 1>>, columns_except_unique_id(search_rec),
                        tokenised_including_mispellings(search_rec),
                        tokenised_including_mispellings(potenital_match_rec),
                        s.tfdp))

scorer_init_s(search_rec, potenital_match_rec, s, tables) ==
    IF s.raised # "no" THEN [lru |-> s.lru, raised |-> s.raised, probability |-> <<1, 1>>]
    ELSE scorer_init_p(search_rec, potenital_match_rec, s,
                       token_probabilities(potenital_match_rec, s.lru, tables))

\* RecordComparisonScorer(search_rec, potenital_match_rec).score on the
\* caches lru and the count tables: the new caches, what was raised, and
\* the probability whose score is the result
scorer_score(search_rec, potenital_match_rec, lru, tables) ==
    scorer_init_s(search_rec, potenital_match_rec,
                  token_probabilities(search_rec, lru, tables), tables)

\* score a > score b for the probabilities a and b
score_greater(a, b) == fraction_less(a, b)

(***************************************************************************)
(* MatchFinder.  The finder f is the record of the attributes of a         *)
(* MatchFinder and of the position of find_potential_matches in its loops. *)
(* best_score is None (-inf) or a probability; best_score_threshold is     *)
(* None (+inf) or the probability whose score is the threshold.            *)
(***************************************************************************)
\* the rows of "SELECT ... FROM fts_target WHERE concat_all MATCH
\* '"t1" "t2" ...'": the entries whose text has every token; "" matches no
\* entry
fts_match(fts_rows, tokens) ==
    SelectSeq(fts_rows,
              LAMBDA r : \A i \in DOMAIN tokens :
                  tokens[i] # <<>> /\ tokens[i] \in Range(str_split(r.concat_all)))

\* bm25(fts_target) of a row for a query: a float of SQLite that depends on
\* the tokens of the query, on the row and on the index, which does not
\* change within a run
bm25(tokens, unique_id) == <<"bm25", tokens, unique_id>>

\* ... LIMIT return_records_limit: which rows of a longer result are kept
\* is the choice of SQLite; a result cut by the limit is never read.  The
\* rows are (unique_id, bm25_score).
fts_fetchall(fts_rows, tokens, return_records_limit) ==
    LET rows == fts_match(fts_rows, tokens)
    IN  [k \in 1..Min(Len(rows), return_records_limit) |->
            [unique_id |-> rows[k].unique_id,
             bm25_score |-> bm25(tokens, rows[k].unique_id)]]

\* MatchFinder.get_record_dict_from_id
get_record_dict_from_id(dfv, rec_id) ==
    json_loads(dfv[CHOOSE i \in DOMAIN dfv : dfv[i].unique_id = rec_id].original_record)

\* the Record of a dict against the store of the handle h: the id column and
\* the configuration are those of the store
StoreRecord(record_dict, h) ==
    Record(record_dict, h.unique_id_col[1], h.cols_to_ignore, h.dmeta_cols)

\* the end of MatchFinder.add_record_if_not_exists once the record is
\* scored: the entry of found_records is the record dict with its score
\* and the bm25_score of the row r
add_scored_record(f, r, record_dict, scored) ==
    IF scored.raised # "no"
    THEN [finder |-> f, lru |-> scored.lru, raised |-> scored.raised]
    ELSE [finder |->
             [f EXCEPT
                !.found_records =
                    [i \in DOMAIN @ \cup {r.unique_id} |->
                        IF i = r.unique_id
                        THEN [record_dict |-> record_dict, score |-> scored.probability,
                              bm25_score |-> r.bm25_score]
                        ELSE @[i]],
                !.best_score =
                    IF @ = <<>> \/ score_greater(scored.probability, @[1])
                    THEN <<scored.probability>> ELSE @],
          lru |-> scored.lru, raised |-> "no"]

add_found_record(st, r, record_dict, h, tables) ==
    add_scored_record(st.finder, r, record_dict,
                      scorer_score(st.finder.record[1], StoreRecord(record_dict, h),
                                   st.lru, tables))

\* an admission without the test for an id that was found before
add_record_again(st, r, dfv, h, tables) ==
    IF st.raised # "no" THEN st
    ELSE add_found_record(st, r, get_record_dict_from_id(dfv, r.unique_id), h, tables)

\* MatchFinder.add_record_if_not_exists for the row r of a result: the new
\* finder and caches, and what was raised
add_record_if_not_exists(st, r, dfv, h, tables) ==
    IF st.raised # "no" \/ r.unique_id \in DOMAIN st.finder.found_records THEN st
    ELSE add_found_record(st, r, get_record_dict_from_id(dfv, r.unique_id), h, tables)

RECURSIVE add_records(_, _, _, _, _)
add_records(st, results, dfv, h, tables) ==
    IF results = <<>> THEN st
    ELSE add_records(add_record_if_not_exists(st, Head(results), dfv, h, tables),
                     Tail(results), dfv, h, tables)

\* the admission test with a saturated result let in
admits_saturated(num_results, return_records_limit) == num_results <= return_records_limit

\* the admission test of _fts_using_tokens
admits(num_results, return_records_limit) == num_results < return_records_limit

\* the test for a search made before, without the set of the searches
searched_before_never(searches, tokens) == FALSE

\* the test of _fts_using_tokens for a search that was made before
searched_before(searches, tokens) == Range(tokens) \in searches

\* the value _fts_using_tokens returns, in f.results
fts_results(st, num_ids_before, num_results) ==
    [st EXCEPT !.finder.results =
        << [num_new_recs_found |->
                Cardinality(DOMAIN st.finder.found_records) - num_ids_before,
            num_results |-> num_results] >>]

\* _fts_using_tokens from the rows fetched on
fts_admit(f1, lru, results, num_ids_before, dfv, h, tables) ==
    fts_results(IF admits(Len(results), f1.return_records_limit)
                THEN add_records([finder |-> f1, lru |-> lru, raised |-> "no"],
                                 results, dfv, h, tables)
                ELSE [finder |-> f1, lru |-> lru, raised |-> "no"],
                num_ids_before, Len(results))

\* MatchFinder._fts_using_tokens: the new finder and caches, what was
\* raised, and the value returned in f.results (None when the search was
\* made before).  log is the debug log "Searching for ...".
_fts_using_tokens(f, tokens, lru, dfv, fts_rows, h, tables) ==
    IF searched_before(f.searches, tokens)
    THEN [finder |-> [f EXCEPT !.results = <<>>], lru |-> lru, raised |-> "no"]
    ELSE fts_admit([f EXCEPT !.searches = @ \cup {Range(tokens)},
                             !.number_of_searches = @ + 1,
                             !.log = Append(@, tokens)],
                   lru, fts_fetchall(fts_rows, tokens, f.return_records_limit),
                   Cardinality(DOMAIN f.found_records), dfv, h, tables)

\* a stop test that looks at the last query only
stop_searching_on_last_query_only(f, results) ==
    results # <<>> /\ results[1].num_results = f.return_records_limit

\* MatchFinder.stop_searching; results is None or the value returned by
\* _fts_using_tokens
stop_searching(f, results) ==
    \/ f.best_score # <<>> /\ f.best_score_threshold # <<>>
          /\ score_greater(f.best_score[1], f.best_score_threshold[1])
    \/ Cardinality(DOMAIN f.found_records) > f.return_records_limit
    \/ results # <<>> /\ results[1].num_results = f.return_records_limit

(***************************************************************************)
(* State                                                                   *)
(***************************************************************************)
VARIABLES
    df,            \* the table df: rows (unique_id, original_record, concat_all) in insertion order
    fts_target,    \* the FTS table: rows (unique_id, concat_all)
    db_state,      \* the key/value table db_state
    token_tables,  \* the {col}_token_counts tables, as the handle's connection sees them
    self,          \* the attributes of the SearchDatabase handle in use
    call,          \* the call of write_list_dicts_parallel in progress
    obs,           \* what the last operation did: its name, warning, debug log
    ncalls,        \* calls of write_list_dicts_parallel so far
    lru,           \* the lru caches of the process (record.py:179, 214)
    finder,        \* the MatchFinder of the call of find_potental_matches in progress or last ended
    rarity,        \* the last tokens_in_order_of_rarity asked of a Record made by the caller
    nqueries,      \* queries so far: calls of find_potental_matches and Records made by the caller
    tokeniser,     \* a value handed to Record.tokenise_value and what came back
    scorer         \* two Records handed to RecordComparisonScorer and what score gave

store_vars == <<df, fts_target, db_state, token_tables, self, call, obs, ncalls>>
query_vars == <<lru, finder, rarity, nqueries>>
pure_vars == <<rapidfuzz, tokeniser, scorer>>
vars == <<df, fts_target, db_state, token_tables, self, call, obs, ncalls,
          lru, finder, rarity, nqueries, rapidfuzz, tokeniser, scorer>>

\* no call of find_potental_matches was made yet
IdleFinder ==
    [pc |-> "idle", record |-> <<>>, number_of_searches |-> 0,
     return_records_limit |-> 0, best_score_threshold |-> <<>>, search_intensity |-> 0,
     found_records |-> << >>, best_score |-> <<>>, searches |-> {},
     strategy |-> 0, tokens |-> <<>>, i |-> 0, band_size |-> 0, start_pos |-> 0,
     results |-> <<>>, log |-> <<>>, raised |-> "no"]

\* the state of the query side in a process that has made no query
QueryIdle ==
    /\ lru = EmptyCaches
    /\ finder = IdleFinder
    /\ rarity = <<>>
    /\ nqueries = 0

\* no value was handed to tokenise_value, no Records to the scorer
IdleTokeniser == [value |-> <<>>, tokens |-> <<>>, again |-> <<>>]
IdleScorer ==
    [search_dict |-> <<>>, potential_match_dict |-> <<>>, cols_to_ignore |-> <<>>,
     dmeta_cols |-> <<>>, tables |-> <<>>, result |-> <<>>]

NoTables == [c \in {} |-> EmptyTable]

\* call: pc is "idle" or "ingesting"; batches: the batches of list_dicts whose
\* results the driver has not consumed yet, in list order, each given by its
\* number of records (the records of a batch are drawn when the driver takes
\* it); write_column_counters: the argument; start: while every id of
\* list_dicts seen so far was in df at the start of the call, the tables and
\* the session counters of that moment (else None)
IdleCall == [pc |-> "idle", batches |-> <<>>, write_column_counters |-> FALSE, start |-> <<>>]

\* the example record is only ever asked for its columns_to_index
\* (database.py:197, 521, 603): the model keeps its keys, not its values
KeysOnly(record_dict) == [k \in DOMAIN record_dict |-> NoneValue]

\* the numbers of records of the batches chunk_list makes of a list of n records
batch_lengths(n, batch_size) ==
    LET batches == chunk_list([k \in 1..n |-> k], batch_size)
    IN  [b \in DOMAIN batches |-> Len(batches[b])]

\* obs: lastOp names the last operation and its outcome; warned: the last
\* __init__ emitted the out-of-sync warning; ignored: the records the last
\* batch logged as "already exists in db, ignoring"; committed: the call in
\* progress or last ended has committed a row to df; reopened: a handle other
\* than the creating one is in use; interrupted: the last ingest call was
\* cancelled after it committed a row and only __init__ ran since; args: the
\* (cols_to_ignore, dmeta_cols) the last operation, an __init__, was given
\* (None for another operation); error: the exception that ended an ingest
\* call before its first batch
Observe(lastOp) ==
    [lastOp |-> lastOp, warned |-> FALSE, ignored |-> {}, committed |-> FALSE,
     reopened |-> obs.reopened, interrupted |-> FALSE, args |-> <<>>,
     error |-> ""]

\* SearchDatabase.initialise_db: the rows of db_state of a new store
initialise_db(cols_to_ignore, dmeta_cols) ==
    [unique_id_col |-> <<>>,
     col_counters_in_sync |-> "true",
     cols_to_ignore |-> json_dumps(cols_to_ignore),
     dmeta_cols |-> json_dumps(dmeta_cols)]

\* SearchDatabase.__init__ on a file that has no table df, in a process that
\* has imported the package
Created ==
    \E args \in CreateArgs : LET cols_to_ignore == args[1]  dmeta_cols == args[2] IN
        /\ df = <<>>
        /\ fts_target = <<>>
        /\ db_state = initialise_db(cols_to_ignore, dmeta_cols)
        /\ token_tables = NoTables
        /\ self = [unique_id_col |-> <<>>, example_record |-> <<>>,
                   cols_to_ignore |-> cols_to_ignore, dmeta_cols |-> dmeta_cols,
                   column_counters |-> <<>>, txn_base |-> <<>>]
        /\ call = IdleCall
        /\ obs = [lastOp |-> "create", warned |-> FALSE, ignored |-> {},
                  committed |-> FALSE, reopened |-> FALSE, interrupted |-> FALSE,
                  args |-> << args >>, error |-> ""]
        /\ ncalls = 0
        /\ QueryIdle

\* no function was applied on its own
PureIdle ==
    /\ tokeniser = IdleTokeniser
    /\ scorer = IdleScorer

\* the store on its own: none of its operations calls levenshtein_distance,
\* so the process is taken without rapidfuzz; the specifications that score
\* draw the distance function (QueryInit, PureInit)
Init ==
    /\ Created
    /\ PureIdle
    /\ rapidfuzz = FALSE

\* Python truthiness of a list and of an optional list
list_truthy(l) == l # <<>>
optional_list_truthy(o) == o # <<>> /\ o[1] # <<>>

\* check_col_counters with the comparison turned round
check_col_counters_when_true(state) ==
    get_value_from_db_state_table(state, "col_counters_in_sync") = "true"

\* SearchDatabase.check_col_counters: is the warning emitted
check_col_counters(state) == get_value_from_db_state_table(state, "col_counters_in_sync") # "true"

\* SearchDatabase._table_df_is_empty
_table_df_is_empty(dfv) == Len(dfv) = 0

\* does __init__ warn: only a store that has records is checked
init_warns(dfv, state) == ~ _table_df_is_empty(dfv) /\ check_col_counters(state)

\* SearchDatabase.__init__ on the existing file: a new handle replaces the
\* one in use, whose connection is dropped with its open transaction
Open(cols_to_ignore, dmeta_cols) ==
    /\ call.pc = "idle"
    /\ UNCHANGED <<df, fts_target, db_state, call, ncalls>>
    /\ UNCHANGED query_vars
    /\ UNCHANGED pure_vars
    /\ IF list_truthy(cols_to_ignore) \/ optional_list_truthy(dmeta_cols)
       THEN \* ValueError: no handle is made
            /\ obs' = [Observe("open_error") EXCEPT
                          !.interrupted = obs.interrupted,
                          !.args = << <<cols_to_ignore, dmeta_cols>> >>]
            /\ UNCHANGED <<token_tables, self>>
       ELSE /\ token_tables' = IF self.txn_base # <<>> THEN self.txn_base[1] ELSE token_tables
            /\ obs' = [Observe("open") EXCEPT !.warned = init_warns(df, db_state),
                                               !.reopened = TRUE,
                                               !.interrupted = obs.interrupted,
                                               !.args = << <<cols_to_ignore, dmeta_cols>> >>]
            /\ IF _table_df_is_empty(df)
               THEN self' = [unique_id_col |-> <<>>, example_record |-> <<>>,
                             cols_to_ignore |-> cols_to_ignore, dmeta_cols |-> dmeta_cols,
                             column_counters |-> <<>>, txn_base |-> <<>>]
               ELSE LET uid == get_value_from_db_state_table(db_state, "unique_id_col")
                    IN  self' =
                          [unique_id_col |-> uid,
                           \* set_example_record_from_db runs before the configuration
                           \* is read back, with the constructor's arguments
                           example_record |->
                               << Record(KeysOnly(json_loads(df[1].original_record)), uid[1],
                                         cols_to_ignore, dmeta_cols) >>,
                           cols_to_ignore |->
                               json_loads(get_value_from_db_state_table(db_state, "cols_to_ignore")),
                           dmeta_cols |->
                               json_loads(get_value_from_db_state_table(db_state, "dmeta_cols")),
                           column_counters |-> <<>>, txn_base |-> <<>>]

\* write_all_col_counters_to_db without its last statement, the write of
\* col_counters_in_sync
write_all_col_counters_to_db_keeps_flag(h, tables, state) ==
    IF h.column_counters = <<>>
    THEN [self |-> h, token_tables |-> tables, db_state |-> state, raised |-> "AttributeError"]
    ELSE LET cc == h.column_counters[1]
             written == flush_tables(cc, tables)
         IN  IF flush_raises(cc, tables)
             THEN [self |-> [h EXCEPT !.txn_base =
                                IF written = tables \/ h.txn_base # <<>> THEN @ ELSE <<tables>>],
                   token_tables |-> written, db_state |-> state,
                   raised |-> "OperationalError"]
             ELSE [self |-> [h EXCEPT !.column_counters = <<>>, !.txn_base = <<>>],
                   token_tables |-> written, db_state |-> state, raised |-> "no"]

\* write_all_col_counters_to_db on the handle h and the tables: the new
\* handle, tables and db_state, and what was raised
write_all_col_counters_to_db(h, tables, state) ==
    IF h.column_counters = <<>>
    THEN [self |-> h, token_tables |-> tables, db_state |-> state, raised |-> "AttributeError"]
    ELSE LET cc == h.column_counters[1]
             written == flush_tables(cc, tables)
         IN  IF flush_raises(cc, tables)
             THEN [self |-> [h EXCEPT !.txn_base =
                                IF written = tables \/ h.txn_base # <<>> THEN @ ELSE <<tables>>],
                   token_tables |-> written, db_state |-> state,
                   raised |-> "OperationalError"]
             ELSE [self |-> [h EXCEPT !.column_counters = <<>>, !.txn_base = <<>>],
                   token_tables |-> written,
                   db_state |-> set_key_value_to_db_state_table(
                                    state, "col_counters_in_sync", "true"),
                   raised |-> "no"]

\* the count tables as committed on disk: what the handle h has written in a
\* transaction it has not committed is not in them
committed_tables(h, tables) == IF h.txn_base # <<>> THEN h.txn_base[1] ELSE tables

\* the bound of the model on the counts: no row above MaxTokenCount
WithinMaxTokenCount(tables) ==
    \A col \in DOMAIN tables : \A t \in DOMAIN tables[col] :
        tables[col][t].token_count <= MaxTokenCount

\* the start of write_list_dicts_parallel, up to the creation of the pool
\* and of the session counters.  list_len is len(list_dicts); list_dicts[0]
\* is read (for its keys) when there is no example record yet.
IngestStart(list_len, unique_id_col, batch_size, write_column_counters) ==
    /\ call.pc = "idle"
    /\ ncalls < MaxCalls
    /\ ncalls' = ncalls + 1
    /\ UNCHANGED <<df, fts_target>>
    /\ UNCHANGED query_vars
    /\ UNCHANGED pure_vars
    /\ LET adopt == self.unique_id_col = <<>>
           uid == IF adopt THEN <<unique_id_col>> ELSE self.unique_id_col
           state1 == IF adopt
                     THEN set_key_value_to_db_state_table(db_state, "unique_id_col", uid)
                     ELSE db_state
           \* set_key_value_to_db_state_table commits
           h1 == [self EXCEPT !.unique_id_col = uid,
                              !.txn_base = IF adopt THEN <<>> ELSE @]
           fail(h, tables, error) ==
               /\ self' = h
               /\ token_tables' = tables
               /\ call' = IdleCall
               /\ obs' = [Observe("ingest_error") EXCEPT !.error = error]
           go(h, tables) ==
               LET h2 == [h EXCEPT !.column_counters =
                             IF @ = <<>> THEN << ColumnCounters(h.example_record[1]) >> ELSE @]
               IN  /\ self' = h2
                   /\ token_tables' = tables
                   /\ call' = [pc |-> "ingesting",
                               batches |-> batch_lengths(list_len, batch_size),
                               write_column_counters |-> write_column_counters,
                               start |-> << [df |-> df, fts_target |-> fts_target,
                                             token_tables |-> committed_tables(h, tables),
                                             column_counters |-> self.column_counters] >>]
                   /\ obs' = Observe("ingest_start")
       IN  /\ db_state' = state1
           /\ IF self.example_record # <<>>
              THEN go(h1, token_tables)
              ELSE IF list_len = 0
              THEN fail(h1, token_tables, "IndexError")
              ELSE \E first \in RecordDicts :
                   IF Record_raises(first, uid[1])
                   THEN fail(h1, token_tables, "KeyError")
                   ELSE LET record == Record(KeysOnly(first), uid[1],
                                             self.cols_to_ignore, self.dmeta_cols)
                            columns == columns_to_index(record)
                            h2 == [h1 EXCEPT !.example_record = <<record>>]
                            tables == initialise_token_tables(columns, token_tables)
                        IN  IF create_reach(columns, token_tables) < Len(columns)
                            THEN fail(h2, tables, "OperationalError")
                            ELSE go(h2, tables)

\* the driver takes from the pool the result of the i-th batch not consumed
\* yet (imap_unordered: in any order), whose records are batch, and inserts it
ConsumeBatch(i, batch) ==
    /\ call.pc = "ingesting"
    /\ i \in DOMAIN call.batches
    /\ Len(batch) = call.batches[i]
    /\ UNCHANGED <<db_state, ncalls>>
    /\ UNCHANGED query_vars
    /\ UNCHANGED pure_vars
    /\ \E results_batch \in { _record_batch_to_insert_data(
                                   batch, self.unique_id_col[1],
                                   self.cols_to_ignore, self.dmeta_cols) } :
       \E st \in { insert_results_batch(
                       [df |-> df, fts_target |-> fts_target,
                        column_counters |-> self.column_counters[1],
                        ignored |-> <<>>, raised |-> "no"],
                       results_batch, self.unique_id_col[1]) } :
       LET rolled_back == executemany_fails(df, results_batch.result_tuples)
           known == call.start # <<>> /\ \A k \in DOMAIN batch :
                        violates_primary_key(call.start[1].df, batch[k][self.unique_id_col[1]])
       IN  /\ df' = st.df
           /\ fts_target' = st.fts_target
           \* "rollback" also undoes what an open transaction had written
           /\ token_tables' = IF rolled_back /\ self.txn_base # <<>>
                              THEN self.txn_base[1] ELSE token_tables
           /\ self' = [self EXCEPT !.column_counters = <<st.column_counters>>,
                                   !.txn_base = <<>>]
           /\ IF st.raised = "KeyError"
              THEN /\ call' = IdleCall
                   /\ obs' = [Observe("ingest_error") EXCEPT
                                 !.committed = obs.committed \/ st.df # df]
              ELSE /\ call' = [call EXCEPT
                                  !.batches = SubSeq(@, 1, i - 1) \o SubSeq(@, i + 1, Len(@)),
                                  !.start = IF known THEN @ ELSE <<>>]
                   /\ obs' = [Observe("batch") EXCEPT
                                 !.ignored = Range(st.ignored),
                                 !.committed = obs.committed \/ st.df # df]

\* the end of write_list_dicts_parallel: the flag, and the flush if asked
IngestFinish ==
    /\ call.pc = "ingesting"
    /\ call.batches = <<>>
    /\ UNCHANGED <<df, fts_target, ncalls>>
    /\ UNCHANGED query_vars
    /\ UNCHANGED pure_vars
    /\ LET state1 == set_key_value_to_db_state_table(db_state, "col_counters_in_sync", "false")
           h1 == [self EXCEPT !.txn_base = <<>>]
           flushed == write_all_col_counters_to_db(h1, token_tables, state1)
       IN  /\ call' = IdleCall
           /\ IF call.write_column_counters
              THEN /\ WithinMaxTokenCount(flushed.token_tables)
                   /\ self' = flushed.self
                   /\ token_tables' = flushed.token_tables
                   /\ db_state' = flushed.db_state
                   /\ obs' = Observe(IF flushed.raised = "no" THEN "ingest_flush"
                                      ELSE "ingest_error")
              ELSE /\ self' = h1
                   /\ token_tables' = token_tables
                   /\ db_state' = state1
                   /\ obs' = Observe("ingest")

\* the call is cancelled, or fails, between two batches: the exception
\* leaves write_list_dicts_parallel, the handle stays in use
Interrupt ==
    /\ call.pc = "ingesting"
    /\ call' = IdleCall
    /\ obs' = [Observe("interrupt") EXCEPT !.committed = obs.committed,
                                           !.interrupted = obs.committed]
    /\ UNCHANGED <<df, fts_target, db_state, token_tables, self, ncalls>>
    /\ UNCHANGED query_vars
    /\ UNCHANGED pure_vars

\* a direct call of write_all_col_counters_to_db
Flush ==
    /\ call.pc = "idle"
    /\ LET flushed == write_all_col_counters_to_db(self, token_tables, db_state)
       IN  /\ WithinMaxTokenCount(flushed.token_tables)
           /\ self' = flushed.self
           /\ token_tables' = flushed.token_tables
           /\ db_state' = flushed.db_state
           /\ obs' = Observe(IF flushed.raised = "no" THEN "flush" ELSE "flush_error")
    /\ UNCHANGED <<df, fts_target, call, ncalls>>
    /\ UNCHANGED query_vars
    /\ UNCHANGED pure_vars

\* build_or_replace_stats_tables
Rebuild ==
    /\ call.pc = "idle"
    /\ UNCHANGED <<df, fts_target, db_state, call, ncalls>>
    /\ UNCHANGED query_vars
    /\ UNCHANGED pure_vars
    /\ IF self.example_record = <<>>
       THEN \* AttributeError
            /\ obs' = Observe("rebuild_error")
            /\ UNCHANGED <<token_tables, self>>
       ELSE LET columns == columns_to_index(self.example_record[1])
                reach == stats_reach(columns, token_tables)
            IN  /\ token_tables' = stats_tables(columns, token_tables)
                /\ self' = [self EXCEPT !.txn_base = IF reach >= 1 THEN <<>> ELSE @]
                /\ obs' = Observe(IF reach < Len(columns) THEN "rebuild_error" ELSE "rebuild")

Next ==
    \/ \E cols_to_ignore \in ColsToIgnoreArgs, dmeta_cols \in DmetaColsArgs :
           Open(cols_to_ignore, dmeta_cols)
    \/ \E list_len \in ListLenArgs,
          unique_id_col \in UniqueIdColArgs,
          batch_size \in BatchSizes,
          write_column_counters \in BOOLEAN :
           IngestStart(list_len, unique_id_col, batch_size, write_column_counters)
    \/ \E i \in 1..MaxListLen, batch \in RecordBatches : ConsumeBatch(i, batch)
    \/ IngestFinish
    \/ Interrupt
    \/ Flush
    \/ Rebuild

Spec == Init /\ [][Next]_vars

(***************************************************************************)
(* Queries: find_potental_matches on the handle, and Records the caller    *)
(* makes against the connection of the handle.  The query path is          *)
(* synchronous: while a call of find_potental_matches runs, nothing else   *)
(* does.                                                                   *)
(***************************************************************************)
MaxQueries == 2
MaxStoreCalls == 2
MaxSearchIntensity == 2

StoreBatches == UNION { [1..n -> StoreDicts] : n \in BatchSizes }

Digits == <<"1", "2", "3", "4">>
\* an id that no record of the store and no earlier query has: the id of
\* the n-th query
fresh_id(prefix, n) == <<prefix, Digits[n]>>

FinderIdle == finder.pc = "idle"

\* SearchDatabase.find_potental_matches up to the call of
\* find_potential_matches: the search dict gets an id of its own, the
\* MatchFinder is made
FindStart(fields, return_records_limit, best_score_threshold, search_intensity) ==
    /\ call.pc = "idle"
    /\ FinderIdle
    /\ nqueries < MaxQueries
    /\ self.unique_id_col = <<"id">>
    /\ nqueries' = nqueries + 1
    /\ finder' = [IdleFinder EXCEPT
                     !.pc = "strategies",
                     !.record = << StoreRecord(
                                      RecordDict(fresh_id("q", nqueries + 1),
                                                 fields.fn, fields.sn), self) >>,
                     !.return_records_limit = return_records_limit,
                     !.best_score_threshold = best_score_threshold,
                     !.search_intensity = search_intensity,
                     !.strategy = 1]
    /\ UNCHANGED <<lru, rarity>>
    /\ UNCHANGED store_vars
    /\ UNCHANGED pure_vars

\* the finder after strategy f.strategy has ended
strategy_ended(f) == [f EXCEPT !.pc = "strategies", !.strategy = @ + 1]

\* the finder after an exception has left find_potential_matches
finder_raised(f, raised) == [f EXCEPT !.pc = "raised", !.raised = raised]

\* find_potential_matches at the head of its loop over the strategies: the
\* stop test, then the strategy up to the head of its own loop, where it has
\* read tokens_in_order_of_rarity of the search record
StrategyStart ==
    /\ finder.pc = "strategies"
    /\ finder.strategy \in 1..3
    /\ UNCHANGED <<rarity, nqueries>>
    /\ UNCHANGED store_vars
    /\ UNCHANGED pure_vars
    /\ IF stop_searching(finder, <<>>)
       THEN /\ finder' = [finder EXCEPT !.pc = "returned"]
            /\ UNCHANGED lru
       ELSE \E tp \in { token_probabilities(finder.record[1], lru, token_tables) } :
            \E order \in { IF tp.raised # "no" THEN [raised |-> tp.raised, tokens |-> <<>>]
                           ELSE tokens_in_order_of_rarity(
                                    tp.tfdp, columns_to_index(finder.record[1])) } :
            LET f == [finder EXCEPT !.tokens = order.tokens]
                n == Len(order.tokens)
            IN  /\ lru' = tp.lru
                /\ finder' =
                     IF order.raised # "no" THEN finder_raised(finder, order.raised)
                     ELSE CASE finder.strategy = 1 ->
                                   IF n = 0 THEN strategy_ended(f)
                                   ELSE [f EXCEPT !.pc = "suffix", !.i = 1]
                            [] finder.strategy = 2 ->
                                   IF n = 0 THEN strategy_ended(f)
                                   ELSE [f EXCEPT !.pc = "band", !.band_size = n,
                                                  !.start_pos = 0]
                            [] OTHER ->
                                   IF n > 2 /\ finder.search_intensity > 0
                                   THEN [f EXCEPT !.pc = "random", !.i = 0]
                                   ELSE strategy_ended(f)

\* the three strategies are over: find_potential_matches returns
FindReturn ==
    /\ finder.pc = "strategies"
    /\ finder.strategy = 4
    /\ finder' = [finder EXCEPT !.pc = "returned"]
    /\ UNCHANGED <<lru, rarity, nqueries>>
    /\ UNCHANGED store_vars
    /\ UNCHANGED pure_vars

\* find_potental_matches returns finder.found_records to its caller, or the
\* exception leaves it: the MatchFinder is dropped
FindEnd ==
    /\ finder.pc \in {"returned", "raised"}
    /\ finder' = IdleFinder
    /\ UNCHANGED <<lru, rarity, nqueries>>
    /\ UNCHANGED store_vars
    /\ UNCHANGED pure_vars

\* one turn of the loop of _search_specific_to_general_all_tokens
SuffixStep ==
    /\ finder.pc = "suffix"
    /\ UNCHANGED <<rarity, nqueries>>
    /\ UNCHANGED store_vars
    /\ UNCHANGED pure_vars
    /\ \E st \in { _fts_using_tokens(
                       finder, SubSeq(finder.tokens, finder.i, Len(finder.tokens)),
                       lru, df, fts_target, self, token_tables) } :
           /\ lru' = st.lru
           /\ finder' =
                IF st.raised # "no" THEN finder_raised(st.finder, st.raised)
                ELSE IF stop_searching(st.finder, st.finder.results)
                        \/ finder.i = Len(finder.tokens)
                THEN strategy_ended(st.finder)
                ELSE [st.finder EXCEPT !.i = @ + 1]

\* one turn of the inner loop of _search_specific_to_general_band; the test
\* of the outer loop stops when the inner loop has stopped
BandStep ==
    /\ finder.pc = "band"
    /\ UNCHANGED <<rarity, nqueries>>
    /\ UNCHANGED store_vars
    /\ UNCHANGED pure_vars
    /\ \E st \in { _fts_using_tokens(
                       finder,
                       SubSeq(finder.tokens, finder.start_pos + 1,
                              finder.start_pos + finder.band_size),
                       lru, df, fts_target, self, token_tables) } :
       LET take == Len(finder.tokens) - finder.band_size + 1
       IN  /\ lru' = st.lru
           /\ finder' =
                IF st.raised # "no" THEN finder_raised(st.finder, st.raised)
                ELSE IF stop_searching(st.finder, st.finder.results)
                THEN strategy_ended(st.finder)
                ELSE IF finder.start_pos + 1 < take
                THEN [st.finder EXCEPT !.start_pos = @ + 1]
                ELSE IF finder.band_size > 1
                THEN [st.finder EXCEPT !.band_size = @ - 1, !.start_pos = 0]
                ELSE strategy_ended(st.finder)

\* a sample of any size, from one token to all of them
random_samples_of_any_size(tokens) ==
    { [k \in DOMAIN places |-> tokens[places[k]]] :
        places \in { q \in UNION { [1..n -> DOMAIN tokens] : n \in 1..Len(tokens) } :
                        \A a, b \in DOMAIN q : a # b => q[a] # q[b] } }

\* _get_random_tokens: random.sample of n of the tokens, n between 2 and
\* len(tokens) - 1: the tokens at n different places, in any order
random_samples(tokens) ==
    { [k \in DOMAIN places |-> tokens[places[k]]] :
        places \in { q \in UNION { [1..n -> DOMAIN tokens] : n \in 2..(Len(tokens) - 1) } :
                        \A a, b \in DOMAIN q : a # b => q[a] # q[b] } }

\* one turn of the loop of _search_random
RandomStep ==
    /\ finder.pc = "random"
    /\ UNCHANGED <<rarity, nqueries>>
    /\ UNCHANGED store_vars
    /\ UNCHANGED pure_vars
    /\ \E random_tokens \in random_samples(finder.tokens) :
       \E st \in { _fts_using_tokens(finder, random_tokens,
                                     lru, df, fts_target, self, token_tables) } :
           /\ lru' = st.lru
           /\ finder' =
                IF st.raised # "no" THEN finder_raised(st.finder, st.raised)
                ELSE IF stop_searching(st.finder, <<>>)
                        \/ finder.i + 1 = finder.search_intensity
                THEN strategy_ended(st.finder)
                ELSE [st.finder EXCEPT !.i = @ + 1]

\* the caller makes Record(search_rec, "id", conn) of a search dict with an
\* id of its own and reads its tokens_in_order_of_rarity (test_record.py)
RarityOrder(fields) ==
    /\ call.pc = "idle"
    /\ FinderIdle
    /\ nqueries < MaxQueries
    /\ nqueries' = nqueries + 1
    /\ UNCHANGED finder
    /\ UNCHANGED store_vars
    /\ UNCHANGED pure_vars
    /\ LET record == Record(RecordDict(fresh_id("r", nqueries + 1), fields.fn, fields.sn),
                            "id", <<>>, <<>>)
       IN  \E tp \in { token_probabilities(record, lru, token_tables) } :
           \E order \in { IF tp.raised # "no" THEN [raised |-> tp.raised, tokens |-> <<>>]
                          ELSE tokens_in_order_of_rarity(tp.tfdp, columns_to_index(record)) } :
               /\ lru' = tp.lru
               /\ rarity' = << [record |-> record, raised |-> order.raised,
                                tokens |-> order.tokens] >>

\* the store is built by calls of write_list_dicts_parallel with the id
\* column "id" and by build_or_replace_stats_tables, between the queries
QueryIngestStart(list_len, batch_size, write_column_counters) ==
    /\ FinderIdle
    /\ ncalls < MaxStoreCalls
    /\ IngestStart(list_len, "id", batch_size, write_column_counters)

QueryRebuild ==
    /\ FinderIdle
    /\ Rebuild

\* the arguments of find_potental_matches of the model:
\* (return_records_limit, best_score_threshold, search_intensity)
FindArgs ==
    { <<1, <<>>, 0>>, <<2, <<>>, MaxSearchIntensity>>, <<2, << <<1, 1>> >>, 0>> }

QueryNext ==
    \/ \E list_len \in 1..MaxListLen, write_column_counters \in BOOLEAN :
           QueryIngestStart(list_len, MaxListLen, write_column_counters)
    \/ \E batch \in StoreBatches : ConsumeBatch(1, batch)
    \/ IngestFinish
    \/ QueryRebuild
    \/ \E fields \in SearchFields, args \in FindArgs :
           FindStart(fields, args[1], args[2], args[3])
    \/ StrategyStart
    \/ FindReturn
    \/ FindEnd
    \/ SuffixStep
    \/ BandStep
    \/ RandomStep
    \/ \E fields \in SearchFields : RarityOrder(fields)

\* a store made with the default configuration
QueryInit ==
    /\ Created
    /\ obs.args = << << <<>>, <<>> >> >>
    /\ PureIdle
    /\ rapidfuzz \in BOOLEAN

QuerySpec == QueryInit /\ [][QueryNext]_vars

(***************************************************************************)
(* The functions of the package applied on their own: tokenise_value to a  *)
(* value, RecordComparisonScorer.score to two Records against the count    *)
(* tables of a store.  The inputs are drawn at the start.                  *)
(***************************************************************************)
\* the longest value drawn over TokeniserChars
MaxValueLen == 3

\* the characters of the values handed to tokenise_value: a letter, a digit,
\* a punctuation mark, the space, the tab and the underscore
TokeniserChars == {"a", "1", "-", " ", "\t", "_"}

\* longer values: more than 8 word characters, letters against digits in a
\* value of more than 5 characters, a tab between two words, a newline
LongValues ==
    { <<"a","b","c","d","e","f","g","h","i","j">>,
      <<"a","b","1","2","c","d">>,
      <<"a","b","c","d","e","\t","f","g","h","i">>,
      <<"a","\n","b">>, <<"\n">> }

TokeniserValues ==
    UNION { [1..n -> TokeniserChars] : n \in 0..MaxValueLen } \cup LongValues \cup {NoneValue}

\* Record.tokenise_value(value)
TokeniseValue ==
    /\ tokeniser.value # <<>>
    /\ tokeniser.tokens = <<>>
    /\ tokeniser' = [tokeniser EXCEPT !.tokens = << tokenise_value(tokeniser.value[1]) >>]
    /\ UNCHANGED <<rapidfuzz, scorer>>
    /\ UNCHANGED store_vars
    /\ UNCHANGED query_vars

\* Record.tokenise_value(" ".join(tokens)) on the tokens that came back
TokeniseJoined ==
    /\ tokeniser.tokens # <<>>
    /\ tokeniser.again = <<>>
    /\ tokeniser' = [tokeniser EXCEPT
                        !.again = << tokenise_value(str_join(tokeniser.tokens[1])) >>]
    /\ UNCHANGED <<rapidfuzz, scorer>>
    /\ UNCHANGED store_vars
    /\ UNCHANGED query_vars

\* the count tables of a store created with (cols_to_ignore, dmeta_cols)
\* that was handed record_dicts in one call with write_column_counters=True
\* and then build_or_replace_stats_tables()
built_tables(record_dicts, cols_to_ignore, dmeta_cols) ==
    LET cc == _record_batch_to_insert_data(
                  record_dicts, "id", cols_to_ignore, dmeta_cols).column_counters
    IN  stats_tables(cc.columns,
                     flush_tables(cc, initialise_token_tables(cc.columns, NoTables)))

\* the search Record and the potential match Record of a scorer
scorer_search_rec(sc) ==
    Record(sc.search_dict[1], "id", sc.cols_to_ignore, sc.dmeta_cols)
scorer_potenital_match_rec(sc) ==
    Record(sc.potential_match_dict[1], "id", sc.cols_to_ignore, sc.dmeta_cols)

\* RecordComparisonScorer(search_rec, potenital_match_rec).score in a
\* process that has looked up no token yet
ScorerScore ==
    /\ scorer.search_dict # <<>>
    /\ scorer.result = <<>>
    /\ \E scored \in { scorer_score(scorer_search_rec(scorer), scorer_potenital_match_rec(scorer),
                                     EmptyCaches, scorer.tables[1]) } :
           scorer' = [scorer EXCEPT !.result = << [raised |-> scored.raised,
                                                   probability |-> scored.probability] >>]
    /\ UNCHANGED <<rapidfuzz, tokeniser>>
    /\ UNCHANGED store_vars
    /\ UNCHANGED query_vars

PureNext == TokeniseValue \/ TokeniseJoined \/ ScorerScore

\* a value for tokenise_value, or two Records and a store for the scorer
PureInit ==
    /\ Created
    /\ obs.args = << << <<>>, <<>> >> >>
    /\ rapidfuzz \in BOOLEAN
    /\ \/ /\ \E value \in TokeniserValues :
                  tokeniser = [IdleTokeniser EXCEPT !.value = << value >>]
          /\ scorer = IdleScorer
       \/ /\ tokeniser = IdleTokeniser
          /\ \E search_dict \in ScorerSearchDicts, i \in DOMAIN ScorerDicts, args \in CreateArgs :
                  scorer = [search_dict |-> << search_dict >>,
                            potential_match_dict |-> << ScorerDicts[i] >>,
                            cols_to_ignore |-> args[1], dmeta_cols |-> args[2],
                            tables |-> << built_tables(ScorerDicts, args[1], args[2]) >>,
                            result |-> <<>>]

PureSpec == PureInit /\ [][PureNext]_vars

(***************************************************************************)
(* Properties                                                              *)
(***************************************************************************)
\* the columns and the tokens (phonetic codes included) of the model
Columns == {"fn", "sn"}
Tokens == FieldTokens \cup UNION { Range(get_dmetaphone_tokens_cache[t]) : t \in FieldTokens }

\* the number of rows of a table (df or fts_target) with this unique_id
RowsWithId(table, unique_id) ==
    Cardinality({ i \in DOMAIN table : table[i].unique_id = unique_id })

\* the on-disk count of token t in the table of column col (0: no row)
DiskCount(tables, col, t) ==
    IF col \in DOMAIN tables /\ t \in DOMAIN tables[col]
    THEN tables[col][t].token_count ELSE 0

\* the count of token t of column col in the session counters of handle h
PendingCount(h, col, t) ==
    IF h.column_counters = <<>> THEN 0
    ELSE IF col \notin DOMAIN h.column_counters[1].col_token_counts THEN 0
    ELSE CounterGet(h.column_counters[1].col_token_counts[col], t)

\* committed on disk plus pending in the session, per column and token
EffectiveCounts(h, tables) ==
    [col \in Columns, t \in Tokens |->
        DiskCount(committed_tables(h, tables), col, t) + PendingCount(h, col, t)]

\* a step of the driver's loop over the batches
IsBatchStep == call.pc = "ingesting" /\ call.batches # <<>> /\ obs'.lastOp # "interrupt"

\* the record dicts of the rows a step adds to df
NewDicts ==
    [k \in 1..(Len(df') - Len(df)) |-> json_loads(df'[Len(df) + k].original_record)]

\* C1: in every reachable state, whatever the ingest calls, batch sizes,
\* duplicates and insert paths were, every unique_id has as many rows in df
\* as in fts_target (the same multiset), so count(df) = count(fts_target).
C1_SameIdsInDfAndFts ==
    /\ Len(df) = Len(fts_target)
    /\ \A unique_id \in Ids : RowsWithId(df, unique_id) = RowsWithId(fts_target, unique_id)

\* two records are in both tables after a batch that went through the
\* one-by-one fallback and skipped a duplicate
C1_Witness ==
    /\ obs.lastOp = "batch"
    /\ obs.ignored # {}
    /\ Len(df) = 2
    /\ Len(fts_target) = 2

\* C2: a record whose unique_id is already in df is skipped and adds zero to
\* the counters.  In memory: a batch step changes the session counters
\* exactly as inserting only the records it added to df does (by the bulk
\* path or by the fallback), and not at all when it added none.  On disk: a
\* flush adds to each on-disk count exactly the pending session count.
C2_Step ==
    /\ IsBatchStep =>
          LET cc == self.column_counters[1]
              uid == self.unique_id_col[1]
              bulk == update(cc, _record_batch_to_insert_data(
                                     NewDicts, uid, self.cols_to_ignore,
                                     self.dmeta_cols).column_counters)
              one_by_one == insert_batch_one_by_one(
                                [df |-> df, fts_target |-> fts_target, column_counters |-> cc,
                                 ignored |-> <<>>, raised |-> "no"],
                                NewDicts, uid).column_counters
          IN  IF NewDicts = <<>>
              THEN self'.column_counters = <<cc>>
              ELSE self'.column_counters \in { <<bulk>>, <<one_by_one>> }
    /\ obs'.lastOp \in {"flush", "ingest_flush"} =>
          \A col \in Columns, t \in Tokens :
              DiskCount(token_tables', col, t)
                  = DiskCount(token_tables, col, t) + PendingCount(self, col, t)

C2_SkippedRecordAddsZero == [][C2_Step]_vars

\* the handle that made the store has taken a batch that held a duplicate
\* next to a new record: its session counts BOB once per record in df
C2_Witness ==
    /\ obs.lastOp = "batch"
    /\ ~obs.reopened
    /\ obs.ignored # {}
    /\ Len(df) = 2
    /\ PendingCount(self, "fn", <<"B", "O", "B">>) = 2

\* C3: ingest is idempotent on id.  A call that completes, with at least one
\* batch and with every record's id in df when the call started (on the
\* handle that made the first ingest or on a later one), leaves df and
\* fts_target as they were at its start, and the token counts too: what is
\* committed on disk plus what the handle's session still holds to flush.
C3_Step ==
    ( /\ call.pc = "ingesting"
      /\ call.batches = <<>>
      /\ call.start # <<>>
      /\ obs.lastOp = "batch"
      /\ obs'.lastOp \in {"ingest", "ingest_flush"} )
    => /\ df' = call.start[1].df
       /\ fts_target' = call.start[1].fts_target
       /\ EffectiveCounts(self', token_tables')
            = EffectiveCounts([column_counters |-> call.start[1].column_counters,
                               txn_base |-> <<>>],
                              call.start[1].token_tables)

C3_IngestIdempotentOnId == [][C3_Step]_vars

\* a second handle has consumed a batch of records that were all in df when
\* its call started, one of them with a payload other than the stored one
C3_Witness ==
    /\ obs.lastOp = "batch"
    /\ obs.reopened
    /\ call.start # <<>>
    /\ call.batches = <<>>
    /\ \E r \in obs.ignored : \E i \in DOMAIN df :
          /\ df[i].unique_id = r["id"]
          /\ json_loads(df[i].original_record) # r

\* the number of occurrences of t in a list of tokens
Occurrences(tokens, t) == Cardinality({ i \in DOMAIN tokens : tokens[i] = t })

\* the Record of a row of df under the configuration the store persists
StoredRecord(row) ==
    Record(json_loads(row.original_record),
           get_value_from_db_state_table(db_state, "unique_id_col")[1],
           json_loads(get_value_from_db_state_table(db_state, "cols_to_ignore")),
           json_loads(get_value_from_db_state_table(db_state, "dmeta_cols")))

\* the occurrences of t in column col over the rows of df, phonetic
\* variants included, duplicates counted
RECURSIVE OccurrencesInRows(_, _, _)
OccurrencesInRows(rows, col, t) ==
    IF rows = <<>> THEN 0
    ELSE LET tfd == tokenised_including_mispellings(StoredRecord(Head(rows)))
         IN  (IF col \in DOMAIN tfd THEN Occurrences(tfd[col], t) ELSE 0)
             + OccurrencesInRows(Tail(rows), col, t)

\* C4: after a counter flush that follows ingest calls on one handle, for
\* every indexed column c and token t the on-disk count of t in c's table is
\* the number of occurrences of t (duplicates counted, phonetic variants
\* included) in column c over exactly the records inserted into df.
C4_CountsAreOccurrencesInDf ==
    (obs.lastOp \in {"flush", "ingest_flush"} /\ ~obs.reopened /\ df # <<>>) =>
        \A col \in Range(columns_to_index(StoredRecord(df[1]))), t \in Tokens :
            DiskCount(token_tables, col, t) = OccurrencesInRows(df, col, t)

\* C5: in every reachable state no two rows of df have the same unique_id.
C5_NoDuplicateUniqueId ==
    \A i, j \in DOMAIN df : df[i].unique_id = df[j].unique_id => i = j

\* the first call on a new store has skipped a record whose id an earlier
\* record of the same call had taken
C5_Witness ==
    /\ obs.lastOp = "batch"
    /\ ncalls = 1
    /\ ~obs.reopened
    /\ Len(df) = 1
    /\ \E r \in obs.ignored : r["id"] = df[1].unique_id

\* C6: records are append-only.  Every step (ingest of an id that exists
\* with another payload, flush, rebuild, open) keeps every row of df, with
\* its unique_id, original_record and concat_all, at its place: on a
\* duplicate id the payload inserted first stays.
C6_Step == \A i \in DOMAIN df : i \in DOMAIN df' /\ df'[i] = df[i]

C6_AppendOnly == [][C6_Step]_vars

\* the handle that inserted a record has skipped a record with the same id
\* and another payload; the row holds the first payload
C6_Witness ==
    /\ obs.lastOp = "batch"
    /\ ~obs.reopened
    /\ \E r \in obs.ignored : \E i \in DOMAIN df :
          /\ df[i].unique_id = r["id"]
          /\ json_loads(df[i].original_record) # r
          /\ json_loads(df[i].original_record)["fn"] = <<"b", "o", "b">>

\* every row's proportion is its count over the sum of the table's counts
ProportionsAreCountOverSum(table) ==
    \A t \in DOMAIN table :
        table[t].token_proportion = <<table[t].token_count, sum_token_count(table)>>

\* the proportions of the table sum to 1: as fractions over one positive
\* denominator, their numerators sum to it
ProportionsSumToOne(table) ==
    \E d \in 1..(MaxTokenCount * Cardinality(Tokens)) :
        /\ \A t \in DOMAIN table :
              table[t].token_proportion # <<>> /\ table[t].token_proportion[2] = d
        /\ SumOver([t \in DOMAIN table |-> table[t].token_proportion[1]], DOMAIN table) = d

\* the columns build_or_replace_stats_tables visits
RebuiltColumns == Range(columns_to_index(self.example_record[1]))

\* C7 (as stated): after build_or_replace_stats_tables, for every indexed
\* column, every token row has proportion = count / (sum of the counts of
\* the column's table), and the proportions of the column sum to 1.
C7_Original ==
    obs.lastOp = "rebuild" =>
        \A col \in RebuiltColumns :
            /\ ProportionsAreCountOverSum(token_tables[col])
            /\ ProportionsSumToOne(token_tables[col])

\* C7 (amended): after build_or_replace_stats_tables, for every indexed
\* column, every token row has proportion = count / (sum of the counts of
\* the column's table), and the proportions of a column whose table has at
\* least one row sum to 1 (a table without rows has no proportions to sum).
C7_ProportionsAfterRebuild ==
    obs.lastOp = "rebuild" =>
        \A col \in RebuiltColumns :
            /\ ProportionsAreCountOverSum(token_tables[col])
            /\ DOMAIN token_tables[col] # {} => ProportionsSumToOne(token_tables[col])

\* a rebuild over a table that holds two tokens with different counts
C7_Witness ==
    /\ obs.lastOp = "rebuild"
    /\ \E col \in RebuiltColumns : \E t, u \in DOMAIN token_tables[col] :
          token_tables[col][t].token_count < token_tables[col][u].token_count

\* the persisted flag
col_counters_in_sync == get_value_from_db_state_table(db_state, "col_counters_in_sync")

\* C8: col_counters_in_sync is "true" on a newly created store, "false"
\* after an ingest call with write_column_counters false, "true" after a
\* counter flush and "true" after an ingest call with write_column_counters
\* true.
C8_FlagProtocol ==
    /\ obs.lastOp = "create" => col_counters_in_sync = "true"
    /\ obs.lastOp = "ingest" => col_counters_in_sync = "false"
    /\ obs.lastOp = "flush" => col_counters_in_sync = "true"
    /\ obs.lastOp = "ingest_flush" => col_counters_in_sync = "true"

\* a direct flush has written the counts of two records and set the flag
C8_Witness ==
    /\ obs.lastOp = "flush"
    /\ col_counters_in_sync = "true"
    /\ Len(df) = 2
    /\ DiskCount(token_tables, "fn", <<"B", "O", "B">>) >= 1

C10_InterruptedIngestLeavesFlagFalse ==
    /\ (obs.lastOp = "interrupt" /\ obs.committed) => col_counters_in_sync = "false"
    /\ (obs.lastOp = "open" /\ obs.interrupted) => obs.warned

\* the rows of the count tables: per column and token, the row's count and
\* proportion (None: the table has no row for the token)
TableRows(tables) ==
    [col \in Columns, t \in Tokens |->
        IF col \in DOMAIN tables /\ t \in DOMAIN tables[col] THEN <<tables[col][t]>> ELSE <<>>]

\* a step of a call of write_list_dicts_parallel with write_column_counters
\* false: its start, the insert of a batch, its end
IsUnflushedIngestStep ==
    \/ call.pc = "idle" /\ call'.pc = "ingesting" /\ ~call'.write_column_counters
    \/ call.pc = "ingesting" /\ ~call.write_column_counters /\ obs'.lastOp # "interrupt"

\* C11: an ingest call with write_column_counters false leaves every on-disk
\* token count table unchanged (counts and proportions): no step of such a
\* call changes a row of the committed count tables.
C11_UnflushedIngestKeepsTables ==
    [][IsUnflushedIngestStep =>
          TableRows(committed_tables(self', token_tables'))
              = TableRows(committed_tables(self, token_tables))]_vars

\* C12: opening an existing store with a non-default cols_to_ignore (the
\* default is []) or a non-default dmeta_cols (the default is None, so [] is
\* non-default) fails: a handle is made only when both arguments are the
\* defaults, and a failed open leaves the tables of the store as they were.
C12_NonDefaultArgsRejected ==
    /\ (obs.lastOp = "open" /\ obs.args # <<>>) => obs.args[1] = << <<>>, <<>> >>
    /\ (obs.lastOp = "open_error" /\ obs.args # <<>>) => obs.args[1] # << <<>>, <<>> >>

\* C13: a handle opened on an existing store (with the default arguments,
\* the only ones __init__ is meant to accept there) has the unique_id_col,
\* cols_to_ignore and dmeta_cols that db_state persists, whether the store
\* holds records or not.
C13_OpenedHandleUsesPersistedConfig ==
    (obs.lastOp = "open" /\ obs.args = << << <<>>, <<>> >> >>) =>
        /\ self.unique_id_col = get_value_from_db_state_table(db_state, "unique_id_col")
        /\ self.cols_to_ignore
             = json_loads(get_value_from_db_state_table(db_state, "cols_to_ignore"))
        /\ self.dmeta_cols
             = json_loads(get_value_from_db_state_table(db_state, "dmeta_cols"))

\* the persisted unique_id_col
stored_unique_id_col == get_value_from_db_state_table(db_state, "unique_id_col")

\* C14: the first ingest call's unique_id_col is adopted and persisted, and
\* once db_state holds a unique_id_col no step (a later ingest call with
\* another unique_id_col, on the same handle or on a reopened one) changes it.
C14_Step ==
    /\ (stored_unique_id_col = <<>> /\ ncalls' # ncalls) =>
          (stored_unique_id_col' # <<>> /\ self'.unique_id_col = stored_unique_id_col')
    /\ stored_unique_id_col # <<>> => stored_unique_id_col' = stored_unique_id_col

C14_StoredUniqueIdColNeverChanges == [][C14_Step]_vars

\* the driver's insert of the result of one batch, from the tables and the
\* session counters st
consume_batch(st, batch) ==
    insert_results_batch(
        [st EXCEPT !.ignored = <<>>],
        _record_batch_to_insert_data(batch, self.unique_id_col[1],
                                     self.cols_to_ignore, self.dmeta_cols),
        self.unique_id_col[1])

\* C15: the final state of an ingest call does not depend on the order in
\* which the driver consumes the results of its chunks.  For every two
\* chunks of the call not consumed yet, whatever their records (the same
\* unique_id in both included), consuming one then the other and the other
\* then the one give the same rows of df, the same rows of fts_target, the
\* same session counters and, flushed, the same on-disk counts.
C15_ChunkOrderIndependent ==
    (call.pc = "ingesting" /\ Len(call.batches) >= 2) =>
        \A i, j \in DOMAIN call.batches : i < j =>
            \A x, y \in RecordBatches :
                (Len(x) = call.batches[i] /\ Len(y) = call.batches[j]) =>
                    LET st == [df |-> df, fts_target |-> fts_target,
                               column_counters |-> self.column_counters[1],
                               ignored |-> <<>>, raised |-> "no"]
                        xy == consume_batch(consume_batch(st, x), y)
                        yx == consume_batch(consume_batch(st, y), x)
                    IN  (xy.raised = "no" /\ yx.raised = "no") =>
                            /\ Range(xy.df) = Range(yx.df)
                            /\ Range(xy.fts_target) = Range(yx.fts_target)
                            /\ xy.column_counters = yx.column_counters
                            /\ flush_tables(xy.column_counters, token_tables)
                                 = flush_tables(yx.column_counters, token_tables)


(***************************************************************************)
(* Claims about the finder, under QuerySpec                                *)
(***************************************************************************)
\* find_potental_matches has returned what is in finder.found_records
Returned == finder.pc = "returned"

num_found_records == Cardinality(DOMAIN finder.found_records)

QuerySent == Len(finder'.log) > Len(finder.log)

\* the query sent in the step was saturated: it returned exactly
\* return_records_limit rows
Saturated ==
    /\ finder'.results # <<>>
    /\ finder'.results[1].num_results = finder'.return_records_limit

\* C17: a saturated FTS query admits none of its rows: found_records and
\* best_score are after the query what they were before it.
C17_Step ==
    (QuerySent /\ Saturated)
        => /\ finder'.found_records = finder.found_records
           /\ finder'.best_score = finder.best_score

issued_token_sets == { Range(finder.log[k]) : k \in DOMAIN finder.log }

FlushedAndRebuilt ==
    /\ col_counters_in_sync = "true"
    /\ self.column_counters = <<>>
    /\ self.txn_base = <<>>
    /\ \A col \in DOMAIN token_tables : ProportionsAreCountOverSum(token_tables[col])

\* the (column, token) pairs of a record, phonetic variants included,
\* that have a row in the count table of their column
known_tokens(record) ==
    { ct \in Range(columns_to_index(record)) \X Tokens :
          /\ ct[1] \in DOMAIN token_tables
          /\ ct[2] \in Range(tokenised_including_mispellings(record)[ct[1]])
          /\ ct[2] \in DOMAIN token_tables[ct[1]] }

\* the ids of the indexed records whose text has every known token of the
\* query
records_with_all_known_tokens(record) ==
    { fts_target[k].unique_id :
        k \in { j \in DOMAIN fts_target :
                  \A ct \in known_tokens(record) :
                      ct[2] \in Range(str_split(fts_target[j].concat_all)) } }

known_token_orders(record) ==
    { order \in [1..Cardinality(known_tokens(record)) -> known_tokens(record)] :
          \A a, b \in DOMAIN order : a # b => order[a] # order[b] }

\* the proportion that the count table of its column has for a token
table_proportion(ct) == token_tables[ct[1]][ct[2]].token_proportion

\* the step is a read of tokens_in_order_of_rarity of a Record of the caller
IsRarityOrderStep == rarity' # rarity

\* C20: tokens_in_order_of_rarity of a record holds exactly those of its
\* tokens, phonetic variants included, that have a row in the count table of
\* their own column, in ascending order of proportion; tokens without a row
\* are left out.  Stated for a record whose columns all have a count table
\* and for tables whose rows all have a proportion; the read leaves the
\* tables as they are.
C20_Step ==
    ( /\ IsRarityOrderStep
      /\ Range(columns_to_index(rarity'[1].record)) \subseteq DOMAIN token_tables
      /\ \A col \in DOMAIN token_tables : \A t \in DOMAIN token_tables[col] :
             token_tables[col][t].token_proportion # <<>> )
        => /\ rarity'[1].raised = "no"
           /\ \E order \in known_token_orders(rarity'[1].record) :
                 /\ rarity'[1].tokens = [k \in DOMAIN order |-> order[k][2]]
                 /\ \A a, b \in DOMAIN order :
                        a < b => ~ fraction_less(table_proportion(order[b]),
                                                 table_proportion(order[a]))

C20_RarityOrderIsKnownTokensAscending == [][C20_Step]_vars

(***************************************************************************)
(* Claims on tokenise_value (PureSpec)                                     *)
(***************************************************************************)
\* C27: tokenise_value is deterministic and idempotent under
\* re-tokenisation: the tokens of a value are what tokenise_value gives for
\* it, and tokenising the space-joined tokens of a value gives the tokens of
\* the value again.
C27_TokeniseIdempotent ==
    /\ tokeniser.tokens # <<>> => tokeniser.tokens[1] = tokenise_value(tokeniser.value[1])
    /\ tokeniser.again # <<>> => tokeniser.again[1] = tokeniser.tokens[1]

\* a token is a non-empty string of at most 8 characters, each A-Z or 0-9
IsShortAlphanumeric(token) ==
    /\ Len(token) \in 1..8
    /\ \A i \in DOMAIN token : IsUpperAZ(token[i]) \/ IsDigit(token[i])

\* C28: every token tokenise_value returns, for every value, is a non-empty
\* string of at most 8 characters over A-Z and 0-9.
C28_TokensAreShortAlphanumerics ==
    tokeniser.tokens # <<>> =>
        \A i \in DOMAIN tokeniser.tokens[1] : IsShortAlphanumeric(tokeniser.tokens[1][i])

(***************************************************************************)
(* Claims on the scorer (PureSpec)                                         *)
(***************************************************************************)
\* the scorer was applied
Scored == scorer.result # <<>>

\* what the scorer reads of its two Records: the token lists of the search
\* record and of the potential match, the token probabilities of the search
\* record
search_rec_tkns == tokenised_including_mispellings(scorer_search_rec(scorer))
potential_match_rec_tkns == tokenised_including_mispellings(scorer_potenital_match_rec(scorer))
token_probs_s ==
    token_probabilities(scorer_search_rec(scorer), EmptyCaches, scorer.tables[1]).tfdp

\* the columns the scorer's loop visits
scored_columns == columns_except_unique_id(scorer_search_rec(scorer))

\* the tokens of column col of the search record that the scorer multiplies
\* by their proportion: those the potential match has, and those it lacks
\* that are no misspelling of one of its tokens
used_tokens(col) ==
    { t \in Range(search_rec_tkns[col]) :
          \/ t \in Range(potential_match_rec_tkns[col])
          \/ ~ token_is_misspelling(potential_match_rec_tkns[col], t) }

\* the tokens of column col of the search record that the store does not have
unknown_tokens(col) ==
    { t \in Range(search_rec_tkns[col]) : ~ token_probs_proportion(token_probs_s, col, t).in_db }

\* the token lists of the search record without the tokens the store does
\* not have
search_rec_tkns_known ==
    [col \in DOMAIN search_rec_tkns |->
        SelectSeq(search_rec_tkns[col], LAMBDA t : t \notin unknown_tokens(col))]

\* the same probability
fraction_equal(a, b) == a[1] * b[2] = a[2] * b[1]

\* C22: when a token of the query is not in the store (its proportion is the
\* marker "does_not_exist_in_db") and the scorer uses it, the scorer takes
\* its proportion as 1: the score is a number, the one the query has
\* without that token in its column.
C22_UnknownTokenCountsAsOne ==
    LET without == score_loop(<<1, 1>>, scored_columns, search_rec_tkns_known,
                              potential_match_rec_tkns, token_probs_s)
    IN  ( /\ Scored
          /\ \A i \in DOMAIN scored_columns :
                 /\ scored_columns[i] \in DOMAIN search_rec_tkns
                 /\ scored_columns[i] \in DOMAIN potential_match_rec_tkns
          /\ \E i \in DOMAIN scored_columns :
                 used_tokens(scored_columns[i]) \cap unknown_tokens(scored_columns[i]) # {}
          /\ without.raised = "no" )
            => /\ scorer.result[1].raised = "no"
               /\ fraction_equal(scorer.result[1].probability, without.probability)

\* t is a misspelling of a token of the potential match in column col:
\* some token s of the potential match has
\* 1 - levenshtein(t, s) / max(len(t), len(s)) > 0.65
is_misspelling(col, t) ==
    \E s \in Range(potential_match_rec_tkns[col]) :
        100 * levenshtein(t, s) < 35 * Max(Len(t), Len(s))

\* the tokens of the search record that are also in the potential match,
\* and those that are not and are no misspelling, the token lists taken as sets
matching_set(col) == Range(search_rec_tkns[col]) \cap Range(potential_match_rec_tkns[col])
unmatched_set(col) ==
    { t \in Range(search_rec_tkns[col]) \ Range(potential_match_rec_tkns[col]) :
          ~ is_misspelling(col, t) }

\* the product of p(t, col) over matching_set, divided by the product of
\* p(t, col) over unmatched_set
column_result(col) ==
    LET above == product_of_proportions(token_probs_s, col, matching_set(col))
        below == product_of_proportions(token_probs_s, col, unmatched_set(col))
    IN  <<above[1] * below[2], above[2] * below[1]>>

\* C23: for each column c the column result of the scorer is the product of
\* p(t, c) over the tokens in both token sets, divided by the product of
\* p(t, c) over the tokens of the query that the candidate lacks and that
\* are no misspelling of a token of the candidate, where t is a misspelling
\* iff some token s of the candidate has
\* 1 - levenshtein(t, s) / max(len) > 0.65.  Stated where every p(t, c) of
\* the two products is a number.
C23_ColumnResultIsProductQuotient ==
    Scored =>
        \A col \in DOMAIN search_rec_tkns \cap DOMAIN potential_match_rec_tkns :
            ( \A t \in matching_set(col) \cup unmatched_set(col) :
                  is_float(token_probs_proportion(token_probs_s, col, t)) )
                => LET p == column_probability(search_rec_tkns, potential_match_rec_tkns,
                                               token_probs_s, col)
                   IN  /\ p.raised = "no"
                       /\ fraction_equal(p.probability, column_result(col))

LINACRE == <<"L","I","N","A","C","R","E">>
LINAKER == <<"L","I","N","A","K","E","R">>

\* the query has the token LINACRE in column sn, the candidate has LINAKER
\* and not LINACRE there, the store has a proportion for LINACRE, and the
\* scorer was applied
LinacreAgainstLinaker ==
    /\ Scored
    /\ "sn" \in DOMAIN search_rec_tkns \cap DOMAIN potential_match_rec_tkns
    /\ LINACRE \in Range(search_rec_tkns["sn"]) \ Range(potential_match_rec_tkns["sn"])
    /\ LINAKER \in Range(potential_match_rec_tkns["sn"])
    /\ is_float(token_probs_proportion(token_probs_s, "sn", LINACRE))

\* the token lists of the search record with LINACRE taken out of column sn
search_rec_tkns_without_linacre ==
    [search_rec_tkns EXCEPT !["sn"] = SelectSeq(@, LAMBDA t : t # LINACRE)]

\* the column result of sn, and what it is without LINACRE in the query
sn_result ==
    column_probability(search_rec_tkns, potential_match_rec_tkns, token_probs_s, "sn")
sn_result_without_linacre ==
    column_probability(search_rec_tkns_without_linacre, potential_match_rec_tkns,
                       token_probs_s, "sn")

\* C24 as claimed: with query token LINACRE and a candidate column
\* containing LINAKER, the unmatched-token branch takes LINACRE for a
\* misspelling (ratio above 0.65) and contributes the factor 1 instead of
\* p(LINACRE).
C24_Original ==
    LinacreAgainstLinaker =>
        /\ token_is_misspelling(potential_match_rec_tkns["sn"], LINACRE)
        /\ sn_result.raised = "no" /\ sn_result_without_linacre.raised = "no"
              => fraction_equal(sn_result.probability, sn_result_without_linacre.probability)

\* C24: with query token LINACRE and a candidate column containing LINAKER,
\* the unmatched-token branch does not take LINACRE for a misspelling (the
\* distance is 3 of 7 characters, ratio 4/7, not above 0.65) and divides by
\* p(LINACRE).
C24_LinacreIsPunished ==
    LinacreAgainstLinaker =>
        /\ ~ token_is_misspelling(potential_match_rec_tkns["sn"], LINACRE)
        /\ sn_result.raised = "no" /\ sn_result_without_linacre.raised = "no"
              => fraction_equal(
                     fraction_times(sn_result.probability,
                                    token_probs_proportion(token_probs_s, "sn", LINACRE).value),
                     sn_result_without_linacre.probability)

C24_Witness ==
    /\ LinacreAgainstLinaker
    /\ scorer.result[1].raised = "no"
    /\ sn_result.raised = "no"

\* the search dict without the columns of cols_to_ignore
search_dict_without_ignored ==
    [k \in DOMAIN scorer.search_dict[1] \ Range(scorer.cols_to_ignore) |->
        scorer.search_dict[1][k]]

\* the score of the query without its ignored columns against the same
\* potential match
score_without_ignored ==
    scorer_score(Record(search_dict_without_ignored, "id", scorer.cols_to_ignore,
                        scorer.dmeta_cols),
                 scorer_potenital_match_rec(scorer), EmptyCaches, scorer.tables[1])

\* C26: the columns of cols_to_ignore are left out of scoring: for a query
\* that has a value in an ignored column the scorer returns the score of
\* the same query without that column.
C26_IgnoredColumnsNotScored ==
    ( /\ Scored
      /\ DOMAIN scorer.search_dict[1] \cap Range(scorer.cols_to_ignore) # {}
      /\ score_without_ignored.raised = "no" )
        => /\ scorer.result[1].raised = "no"
           /\ fraction_equal(scorer.result[1].probability, score_without_ignored.probability)

(***************************************************************************)
(* Claims on the insert paths (Spec)                                       *)
(***************************************************************************)
\* the unique id column and the cols_to_ignore the store persists
stored_id_col == get_value_from_db_state_table(db_state, "unique_id_col")[1]
stored_cols_to_ignore == json_loads(get_value_from_db_state_table(db_state, "cols_to_ignore"))

\* the tokens, phonetic variants included, of the columns of a row's record
\* other than the unique id column and the columns the store ignores
indexed_tokens(row) ==
    LET record == Record(json_loads(row.original_record), stored_id_col,
                         stored_cols_to_ignore, <<>>)
    IN  extend_all(tokenised_including_mispellings(record), columns_to_index(record))

\* the tokens of the text concat_all
concat_all_tokens(row) == IF row.concat_all = <<>> THEN <<>> ELSE str_split(row.concat_all)

\* the columns that have session counters or a count table
counted_columns ==
    DOMAIN token_tables
        \cup (IF self.column_counters = <<>> THEN {}
              ELSE DOMAIN self.column_counters[1].col_token_counts)

\* C25: for every record inserted, by the bulk path or by the one-by-one
\* fallback, concat_all and the counters hold only tokens of indexed
\* columns: no token comes from the unique id column or from a column of
\* the store's cols_to_ignore.  Every token of concat_all is there at most
\* as often as the indexed columns of the record have it, in df and in
\* fts_target, and no counter is kept for another column.
C25_OnlyIndexedColumnsTokenised ==
    /\ \A i \in DOMAIN df :
           /\ \A t \in Range(concat_all_tokens(df[i])) :
                  Occurrences(concat_all_tokens(df[i]), t)
                      <= Occurrences(indexed_tokens(df[i]), t)
           /\ \E j \in DOMAIN fts_target :
                  /\ fts_target[j].unique_id = df[i].unique_id
                  /\ fts_target[j].concat_all = df[i].concat_all
    /\ df # <<>> => counted_columns \cap (Range(stored_cols_to_ignore) \cup {stored_id_col}) = {}

\* a step of the driver's loop whose bulk insert was rejected: the chunk
\* went through insert_batch_one_by_one, which skipped at least the
\* duplicate
IsFallbackStep == IsBatchStep /\ obs'.lastOp = "batch" /\ obs'.ignored # {}

\* the ids of the records of the chunk of a fallback step: those it added
\* to df and those it skipped
chunk_ids ==
    { NewDicts[k][self.unique_id_col[1]] : k \in DOMAIN NewDicts }
        \cup { r[self.unique_id_col[1]] : r \in obs'.ignored }

\* the session counters after the records the step added to df are added
\* once each, tokenised as the handle tokenises
counters_with_new_dicts ==
    IF NewDicts = <<>> THEN self.column_counters[1]
    ELSE update(self.column_counters[1],
                _record_batch_to_insert_data(NewDicts, self.unique_id_col[1],
                                             self.cols_to_ignore,
                                             self.dmeta_cols).column_counters)

\* C29: when the bulk insert of a chunk is rejected for a duplicate id, it
\* is rolled back entirely and the chunk is replayed row by row: the rows
\* df and fts_target had stay, every id of the chunk is in df and in
\* fts_target exactly once afterwards (a record is skipped only when its id
\* is there already), and the records that were inserted are added to the
\* counters exactly once.
C29_Step ==
    IsFallbackStep =>
        /\ SubSeq(df', 1, Len(df)) = df
        /\ SubSeq(fts_target', 1, Len(fts_target)) = fts_target
        /\ \A unique_id \in chunk_ids :
               RowsWithId(df', unique_id) = 1 /\ RowsWithId(fts_target', unique_id) = 1
        /\ Len(df') - Len(df)
               = Cardinality({ unique_id \in chunk_ids : RowsWithId(df, unique_id) = 0 })
        /\ self'.column_counters = << counters_with_new_dicts >>

IsStrategiesStep == finder.pc = "strategies" /\ finder.strategy \in 1..3 /\ finder' # finder

\* C30: the three strategies run in the order suffix, bands, randomised, and
\* the stop predicate, with its condition that the last query returned
\* exactly return_records_limit rows, is checked between strategies: a
\* strategy is not started when the stop predicate holds after the last
\* query of the strategy before it.
C30_Step ==
    IsStrategiesStep =>
        /\ finder'.pc = "suffix" => finder.strategy = 1
        /\ finder'.pc = "band" => finder.strategy = 2
        /\ finder'.pc = "random" => finder.strategy = 3
        /\ stop_searching(finder, finder.results) => finder'.pc = "returned"

QueryStarts ==
    finder.pc = "strategies" /\ finder.strategy = 1 /\ ~ stop_searching(finder, <<>>)

\* Record.token_probabilities of the search record as the process gives it,
\* and as the content of the store alone gives it
probabilities_read == token_probabilities(finder.record[1], lru, token_tables)

probabilities_of_store == token_probabilities(finder.record[1], EmptyCaches, token_tables)

StopConditionMet ==
    \/ num_found_records > finder.return_records_limit
    \/ /\ finder.best_score # <<>>
       /\ finder.best_score_threshold # <<>>
       /\ score_greater(finder.best_score[1], finder.best_score_threshold[1])

\* C31: once more records are admitted than return_records_limit, or
\* best_score exceeds best_score_threshold, no further FTS query is sent in
\* the rest of the run of find_potential_matches, in any strategy.
C31_Step ==
    (finder.pc # "idle" /\ StopConditionMet /\ finder'.pc # "idle")
        => /\ finder'.log = finder.log
           /\ finder'.pc \in {"strategies", "returned"}

best_score_is_max(f) ==
    IF DOMAIN f.found_records = {} THEN f.best_score = <<>>
    ELSE /\ f.best_score # <<>>
         /\ \E rec_id \in DOMAIN f.found_records :
                fraction_equal(f.found_records[rec_id].score, f.best_score[1])
         /\ \A rec_id \in DOMAIN f.found_records :
                ~ score_greater(f.found_records[rec_id].score, f.best_score[1])

\* C32: throughout a run of find_potential_matches each id is admitted at
\* most once: an admitted candidate stays admitted and its entry, with its
\* score and bm25_score, is not overwritten by a later query that returns
\* the same id; and best_score is the maximum score over the admitted
\* candidates, minus infinity when there is none.
C32_Step ==
    /\ (finder.pc # "idle" /\ finder'.pc # "idle") =>
           \A rec_id \in DOMAIN finder.found_records :
               /\ rec_id \in DOMAIN finder'.found_records
               /\ finder'.found_records[rec_id] = finder.found_records[rec_id]
    /\ best_score_is_max(finder')

Running == finder.pc \in {"strategies", "suffix", "band", "random"}

FinderStep == StrategyStart \/ SuffixStep \/ BandStep \/ RandomStep \/ FindReturn

\* a step of the run
FinderAdvances == Running /\ finder' # finder

QueryLiveSpec ==
    /\ QueryInit
    /\ [][QueryNext]_vars
    /\ ([]<>(~ Running) \/ []<><<FinderAdvances>>_vars)

\* a run under way has its next step: the loop over the strategies is at
\* one of them or at its end, and the random strategy has a subset to draw
HasNextStep ==
    /\ finder.pc = "strategies" => finder.strategy \in 1..4
    /\ finder.pc = "suffix" => finder.i \in 1..Len(finder.tokens)
    /\ finder.pc = "band" =>
           /\ finder.band_size \in 1..Len(finder.tokens)
           /\ finder.start_pos \in 0..(Len(finder.tokens) - finder.band_size)
    /\ finder.pc = "random" =>
           /\ random_samples(finder.tokens) # {}
           /\ finder.i < finder.search_intensity

\* the number of known tokens of the query: the length of
\* tokens_in_order_of_rarity
num_tokens == Len(finder.tokens)

\* the most queries a run sends: the suffixes, the bands, the random turns
MostQueries == num_tokens + (num_tokens * (num_tokens + 1)) \div 2 + finder.search_intensity

\* the randomised strategy runs only on three tokens or more, and a query
\* it sends has between 2 and n - 1 tokens
C33_RandomStep ==
    /\ finder'.pc = "random" => Len(finder'.tokens) >= 3
    /\ (finder.pc = "random" /\ QuerySent) =>
           Len(finder'.log[Len(finder'.log)]) \in 2..(num_tokens - 1)

bulk_insert_data ==
    _record_batch_to_insert_data(NewDicts, self.unique_id_col[1],
                                 self.cols_to_ignore, self.dmeta_cols)

\* C34: for every configuration of the store (any cols_to_ignore, any
\* dmeta_cols), a record inserted by the one-by-one fallback path gets the
\* df row, with its concat_all, and the counter contribution that the bulk
\* path would have written for it.
C34_Step ==
    (IsFallbackStep /\ NewDicts # <<>>) =>
        /\ SubSeq(df', Len(df) + 1, Len(df')) = bulk_insert_data.result_tuples
        /\ self'.column_counters
               = << update(self.column_counters[1], bulk_insert_data.column_counters) >>

C34_FallbackWritesWhatBulkWrites == [][C34_Step]_vars

\* the indexed columns of the store: those of the records of df under the
\* persisted configuration
indexed_columns ==
    IF df = <<>> THEN Columns ELSE Range(columns_to_index(StoredRecord(df[1])))

\* C35: whenever the persisted flag col_counters_in_sync reads "true"
\* between two operations, the count tables on disk match the rows of df:
\* every token of every inserted record is counted exactly once, whatever
\* ingest calls, flushes and reopenings came before, an unflushed ingest on
\* one handle followed by a flushed ingest on a new handle included.
C35_FlagTrueMeansCountsMatchDf ==
    (call.pc = "idle" /\ col_counters_in_sync = "true") =>
        \A col \in indexed_columns, t \in Tokens :
            DiskCount(committed_tables(self, token_tables), col, t)
                = OccurrencesInRows(df, col, t)

(***************************************************************************)
(* Claims on the search (QuerySpec), continued: the lookups                *)
(***************************************************************************)
\* the Records whose token_probabilities were worked out in the step, for
\* the rarity order or for a score
probabilities_worked_out ==
    DOMAIN lru'.token_probabilities \ DOMAIN lru.token_probabilities

\* what tfdp says of its tokens is what the count tables say now
tfdp_is_current(tfdp) ==
    \A col \in DOMAIN tfdp : \A i \in DOMAIN tfdp[col] :
        /\ col \in DOMAIN token_tables
        /\ tfdp[col][i] = select_token_proportion(tfdp[col][i].token, col, token_tables)

\* C36: the proportion that the rarity order and the score use for a token,
\* and whether the token counts as known to the store, is the value the
\* count table of the column holds at the time of the query, also when the
\* token was looked up earlier in the process and records were ingested and
\* the stats rebuilt since.
C36_Step ==
    \A rec_id \in probabilities_worked_out :
        tfdp_is_current(lru'.token_probabilities[rec_id])

C36_LookupReadsCurrentTable == [][C36_Step]_vars

(***************************************************************************)
(* Claims on the store (Spec), continued: errors and flushes               *)
(***************************************************************************)
\* the step is a first ingest call on a new store that failed because its
\* first record does not have the unique_id_col of the call
IsFirstIngestWithoutIdColumn ==
    /\ df = <<>>
    /\ stored_unique_id_col = <<>>
    /\ self.unique_id_col = <<>>
    /\ obs'.lastOp = "ingest_error"
    /\ obs'.error = "KeyError"

\* C37: when the first ingest call on a new store fails because its first
\* record lacks the unique_id_col of the call (the Record is not made), the
\* store is left as it was: unique_id_col stays unset in the handle and in
\* db_state and no count table is created, so that a later call on the
\* handle with the right unique_id_col adopts it.
C37_Step ==
    IsFirstIngestWithoutIdColumn =>
        /\ self'.unique_id_col = <<>>
        /\ stored_unique_id_col' = <<>>
        /\ db_state' = db_state
        /\ token_tables' = token_tables

C37_FailedFirstIngestLeavesStore == [][C37_Step]_vars

\* the step is a direct counter flush called when nothing is pending: the
\* last operation was an ingest call that flushed, or a flush
IsFlushWithNothingPending ==
    /\ obs.lastOp \in {"ingest_flush", "flush"}
    /\ obs'.lastOp \in {"flush", "flush_error"}

\* C38: a counter flush called when nothing is pending, directly after an
\* ingest call with write_column_counters true or after another flush,
\* completes without error and leaves every count on disk and the flag as
\* they were, so that no token is counted twice.
C38_Step ==
    IsFlushWithNothingPending =>
        /\ obs'.lastOp = "flush"
        /\ committed_tables(self', token_tables') = committed_tables(self, token_tables)
        /\ col_counters_in_sync' = col_counters_in_sync

C38_FlushWithNothingPendingIsNoOp == [][C38_Step]_vars

====
